---- MODULE Spec2Model ----
(***************************************************************************)
(* Gesture-recognition pipeline of web-adventure: PlayerProfile.js (the    *)
(* calibration profile, its sample windows, the tutorial and the XP        *)
(* ledger), MotionCapture.js (fusion, smoothing and the walk, turn and     *)
(* punch detectors of combineResults) and Player.js (the player record     *)
(* the detectors write to).                                                *)
(*                                                                         *)
(* Numbers.  JavaScript numbers are modelled in fixed point:               *)
(*   - coordinates, distances, velocities (units/s) and cadences (s) are   *)
(*     integers in hundredths (0.05 is 5, 0.2 is 20, 0.5 is 50);           *)
(*   - hand positions are in thousandths (arm reach 0.8 of a hundredth     *)
(*     is 8 thousandths);                                                  *)
(*   - angles of the elbow are whole degrees, yaw is in hundredths of a    *)
(*     radian (pi is 314);                                                 *)
(*   - times are whole milliseconds.                                       *)
(* A division rounds down (\div) where JavaScript rounds to the nearest    *)
(* double.  Comparisons against a ratio (distance / baseline < 0.9) are    *)
(* cross-multiplied and therefore exact.                                   *)
(***************************************************************************)
EXTENDS Integers, Sequences, FiniteSets, TLC

VARIABLES
    profile,        \* the PlayerProfile object (index.html: const profile)
    motion,         \* the MotionCapture object (index.html: const motion)
    player,         \* the Player object (index.html: const player)
    localStorage,   \* the browser's key/value store
    clock,          \* performance.now() / Date.now(), in ms
    frame           \* locals and emitted events of the latest handler run

vars == <<profile, motion, player, localStorage, clock, frame>>

\* null as the value of a string-valued field (tutorialState)
Null == "null"
\* An optional value (null / undefined, or a value): the empty tuple or <<v>>
None == <<>>
Some(v) == <<v>>
Get(o) == o[1]

(***************************************************************************)
(* Sequence helpers                                                        *)
(***************************************************************************)
RECURSIVE Sum(_)
Sum(s) ==
    IF s = <<>> THEN 0
    ELSE IF Len(s) = 1 THEN s[1]
    ELSE LET half == Len(s) \div 2
         IN  Sum(SubSeq(s, 1, half)) + Sum(SubSeq(s, half + 1, Len(s)))

\* tf.tensor2d(...).mean().dataSync()[0]
Mean(s) == Sum(s) \div Len(s)

\* Array.prototype.push
Push(s, v) == Append(s, v)

\* Array.prototype.shift (the removed element is not used by the callers)
Shift(s) == Tail(s)

Abs(n) == IF n < 0 THEN -n ELSE n
Min(a, b) == IF a < b THEN a ELSE b
Max(a, b) == IF a > b THEN a ELSE b

(***************************************************************************)
(* PlayerProfile.js                                                        *)
(***************************************************************************)
DefaultBaselineShoulderDistance == 20     \* 0.2
DefaultPunchVelocityThreshold == 50       \* 0.5
DefaultPunchElbowAngleThreshold == 20     \* 20 degrees
DefaultWalkingCadence == 50               \* 0.5 s
SampleWindowCapacity == 100
TutorialStepCount == 10

tutorialStepsInit ==
    << [action |-> "walk",  count |-> TutorialStepCount, complete |-> FALSE],
       [action |-> "turn",  count |-> TutorialStepCount, complete |-> FALSE],
       [action |-> "punch", count |-> TutorialStepCount, complete |-> FALSE] >>

validTypes == {"shoulderDistance", "walk", "turn", "punchVelocity", "punchElbowAngle"}

\* const sampleKey = type === 'shoulderDistance' ? 'shoulderDistances' : ...
sampleKey(type) ==
    CASE type = "shoulderDistance" -> "shoulderDistances"
      [] type = "walk"             -> "walkingCadences"
      [] type = "turn"             -> "shoulderDistances"
      [] type = "punchVelocity"    -> "punchVelocities"
      [] type = "punchElbowAngle"  -> "punchElbowAngles"
      [] OTHER                     -> Null

\* JSON.stringify of a plain object of finite numbers; JSONparse reads it back
JSONstringify(v) == [json |-> v]
JSONparse(s) == s.json

\* a stored string that is not JSON: JSON.parse throws a SyntaxError on it
Corrupted == [text |-> "corrupted"]
parses(s) == "json" \in DOMAIN s

\* Number.prototype.toString and parseInt on its result
toString(n) == [digits |-> n]
parseInt(s) == s.digits

PlayerProfileInit ==
    [ profile |-> [ baselineShoulderDistance |-> DefaultBaselineShoulderDistance,
                    punchVelocityThreshold   |-> DefaultPunchVelocityThreshold,
                    punchElbowAngleThreshold |-> DefaultPunchElbowAngleThreshold,
                    walkingCadence           |-> DefaultWalkingCadence,
                    lastUpdated              |-> 0 ],
      samples |-> [ shoulderDistances |-> <<>>,
                    punchVelocities   |-> <<>>,
                    punchElbowAngles  |-> <<>>,
                    walkingCadences   |-> <<>> ],
      tutorialState  |-> Null,
      tutorialSteps  |-> tutorialStepsInit,
      tutorialCounts |-> [walk |-> 0, turn |-> 0, punch |-> 0],
      experience     |-> [ walk  |-> [xp |-> 0, level |-> 1],
                           punch |-> [xp |-> 0, level |-> 1],
                           mine  |-> [xp |-> 0, level |-> 1] ],
      totalSteps     |-> 0,
      model          |-> Some([isTraining |-> FALSE]),
      training       |-> None,
      fits           |-> [walk |-> 0, punch |-> 0],
      lastFitStart   |-> None,
      warnings       |-> 0,       \* console.warn calls of recordSample
      failures       |-> 0,       \* passes that ended in trainModel's catch
      faulted        |-> FALSE,   \* the constructor threw
      modelTrainingData |-> [walk |-> <<>>, punch |-> <<>>, mine |-> <<>>] ]

localStorageInit ==
    [ playerProfile |-> None, playerExperience |-> None, totalSteps |-> None,
      customModel |-> None, preferredCameraId |-> None,
      full |-> FALSE ]     \* the quota is used up: setItem throws

\* saveProfile(): three setItem calls; on a full store the first one throws
\* and nothing is written (the caller sees the exception)
saveProfile(pp, ls) ==
    IF ls.full THEN ls
    ELSE [ls EXCEPT !.playerProfile    = Some(JSONstringify(pp.profile)),
                    !.playerExperience = Some(JSONstringify(pp.experience)),
                    !.totalSteps       = Some(toString(pp.totalSteps))]

\* loadProfile(): the three stored values, each read if present.  JSON.parse
\* is not guarded: a stored string that does not parse throws, which ends
\* loadProfile and the constructor that called it.
loadProfile(pp, ls) ==
    IF ls.playerProfile # None /\ ~parses(Get(ls.playerProfile))
    THEN [pp EXCEPT !.faulted = TRUE]
    ELSE LET p1 == IF ls.playerProfile # None
                   THEN [pp EXCEPT !.profile = JSONparse(Get(ls.playerProfile))]
                   ELSE pp
         IN  IF ls.playerExperience # None /\ ~parses(Get(ls.playerExperience))
             THEN [p1 EXCEPT !.faulted = TRUE]
             ELSE LET p2 == IF ls.playerExperience # None
                            THEN [p1 EXCEPT !.experience =
                                      JSONparse(Get(ls.playerExperience))]
                            ELSE p1
                  IN  IF ls.totalSteps # None
                      THEN [p2 EXCEPT !.totalSteps = parseInt(Get(ls.totalSteps))]
                      ELSE p2

\* new PlayerProfile(): the defaults, then loadProfile() and initModel()
\* (no model is stored)
constructor(ls) == loadProfile(PlayerProfileInit, ls)

\* const updateFeature = (data, key, defaultValue) => ... : the new value of
\* one threshold from its sample window
updateFeature(window, defaultValue) ==
    IF Len(window) > 0 THEN Mean(window) ELSE defaultValue

\* this.levelThresholds: XP needed per level
levelThresholds == <<0, 100, 250, 500, 1000, 2000>>

\* the for loop of updateLevel, from index i (0-based) on: the level the
\* thresholds give for xp
RECURSIVE levelFrom(_, _, _)
levelFrom(xp, i, level) ==
    IF i < Len(levelThresholds) /\ xp >= levelThresholds[i + 1]
    THEN levelFrom(xp, i + 1, i + 1)
    ELSE level

\* updateLevel(action), lines 197-205: the level of the loop
levelFor(xp) == levelFrom(xp, 1, 1)

\* (mutant) the level is the number of hundreds of XP, whatever it was
updateLevelByHundreds(pp, action) ==
    [pp EXCEPT !.experience[action].level = pp.experience[action].xp \div 100]

\* updateLevel(action): the level never goes down
updateLevel(pp, action) ==
    LET level == levelFor(pp.experience[action].xp)
    IN  IF level > pp.experience[action].level
        THEN [pp EXCEPT !.experience[action].level = level]
        ELSE pp

\* this.stepLength = 0.7 and 1609.34 metres per mile, this.milesThreshold = 1:
\* (totalSteps * 0.7) / 1609.34 >= 1
walkedAMile(totalSteps) == 70 * totalSteps >= 160934

\* recordAction(action, xp)
recordAction(pp, action, xp) ==
    IF action \notin DOMAIN pp.experience THEN pp
    ELSE LET p1 == updateLevel([pp EXCEPT !.experience[action].xp = @ + xp], action)
         IN  IF action = "walk"
             THEN LET p2 == [p1 EXCEPT !.totalSteps = @ + 1]
                  IN  IF walkedAMile(p2.totalSteps)
                      THEN [updateLevel([p2 EXCEPT !.experience.walk.xp = @ + 50],
                                        "walk")
                              EXCEPT !.totalSteps = 0]
                      ELSE p2
             ELSE p1

\* updateProfile(): runs to completion when called (it awaits nothing).
\* The result is the pair of the profile object and the store.
updateProfile(pp, ls, now) ==
    LET p2 == [pp EXCEPT !.profile =
                 [ baselineShoulderDistance |->
                       updateFeature(pp.samples.shoulderDistances,
                                     DefaultBaselineShoulderDistance),
                   punchVelocityThreshold |->
                       updateFeature(pp.samples.punchVelocities,
                                     DefaultPunchVelocityThreshold),
                   punchElbowAngleThreshold |->
                       updateFeature(pp.samples.punchElbowAngles,
                                     DefaultPunchElbowAngleThreshold),
                   walkingCadence |->
                       updateFeature(pp.samples.walkingCadences,
                                     DefaultWalkingCadence),
                   lastUpdated |-> now ]]
    IN  [pp |-> p2, ls |-> saveProfile(p2, ls)]

\* this.tutorialSteps.find(step => !step.complete): its index, 0 when none
currentStep(pp) ==
    IF \E i \in 1..Len(pp.tutorialSteps) : ~pp.tutorialSteps[i].complete
    THEN CHOOSE i \in 1..Len(pp.tutorialSteps) :
            /\ ~pp.tutorialSteps[i].complete
            /\ \A j \in 1..(i - 1) : pp.tutorialSteps[j].complete
    ELSE 0

\* (mutant) recomputes the profile on every call, pending step or not
updateTutorialInstructionsEager(pp, ls, now) ==
    updateProfile(IF currentStep(pp) = 0 THEN [pp EXCEPT !.tutorialState = Null]
                  ELSE pp, ls, now)

\* updateTutorialInstructions()
updateTutorialInstructions(pp, ls, now) ==
    IF currentStep(pp) = 0
    THEN updateProfile([pp EXCEPT !.tutorialState = Null], ls, now)
    ELSE [pp |-> pp, ls |-> ls]

\* startTutorial()
startTutorial(pp, ls, now) ==
    updateTutorialInstructions(
        [pp EXCEPT !.tutorialState = "active",
                   !.tutorialCounts = [walk |-> 0, turn |-> 0, punch |-> 0],
                   !.tutorialSteps =
                       [i \in 1..Len(pp.tutorialSteps) |->
                           [pp.tutorialSteps[i] EXCEPT !.complete = FALSE]]],
        ls, now)

\* this.tutorialSteps.find(s => s.action === type): its index, 0 when none
stepOfType(pp, type) ==
    IF \E i \in 1..Len(pp.tutorialSteps) : pp.tutorialSteps[i].action = type
    THEN CHOOSE i \in 1..Len(pp.tutorialSteps) :
            /\ pp.tutorialSteps[i].action = type
            /\ \A j \in 1..(i - 1) : pp.tutorialSteps[j].action # type
    ELSE 0

\* epochs: 10
epochs == 10

\* trainModel(action, data, label) up to its await: nothing without a model;
\* otherwise model.fit is called on the examples recorded so far.  A model
\* that is already training rejects the call, which the catch block logs;
\* otherwise the pass starts and goes on asynchronously.  fits, lastFitStart
\* and rejected observe the passes started, the time of the last start and
\* the calls rejected while the pass ran.
trainModel(pp, action, now) ==
    IF pp.model = None THEN pp
    ELSE IF Get(pp.model).isTraining
    THEN [pp EXCEPT !.training = Some([Get(@) EXCEPT !.rejected = @ + 1])]
    ELSE [pp EXCEPT !.model = Some([isTraining |-> TRUE]),
                    !.training = Some([action   |-> action,
                                       epoch    |-> 0,
                                       examples |-> Len(pp.modelTrainingData[action]),
                                       rejected |-> 0]),
                    !.fits[action] = @ + 1,
                    !.lastFitStart = Some(now)]

\* (mutant) an epoch costs 5 XP
onEpochEndCharging(pp) ==
    LET t == Get(pp.training)
    IN  updateLevel([pp EXCEPT !.experience[t.action].xp = @ - 5,
                               !.training = Some([t EXCEPT !.epoch = @ + 1])],
                    t.action)

\* callbacks.onEpochEnd: 5 XP per epoch to the skill being trained
onEpochEnd(pp) ==
    LET t == Get(pp.training)
    IN  updateLevel([pp EXCEPT !.experience[t.action].xp = @ + 5,
                               !.training = Some([t EXCEPT !.epoch = @ + 1])],
                    t.action)

\* (mutant) the failed pass leaves the model busy
fitRejectsBusy(pp) ==
    [pp EXCEPT !.training = None,
               !.failures = @ + 1]

\* model.fit rejects in the middle of a pass: fit gives up its isTraining
\* flag on the way out, and the catch block of trainModel (lines 89-91)
\* logs the error; xs, ys are not disposed and the model is not saved
fitRejects(pp) ==
    [pp EXCEPT !.model = Some([isTraining |-> FALSE]),
               !.training = None,
               !.failures = @ + 1]

\* saveModel(): the model's JSON under 'customModel'
saveModel(pp, ls) ==
    IF ls.full THEN ls ELSE [ls EXCEPT !.customModel = Some("model")]

\* recordSample, lines 151-167: the tutorial branch
recordSampleTutorial(pp, ls, now, type, value) ==
    LET key == sampleKey(type)
        i   == stepOfType(pp, type)
    IN  IF i # 0 /\ ~pp.tutorialSteps[i].complete
        THEN LET n  == pp.tutorialCounts[type] + 1
                 p2 == [pp EXCEPT !.samples[key] = Push(@, value),
                                  !.tutorialCounts[type] = n,
                                  !.tutorialSteps[i].complete =
                                        (n >= pp.tutorialSteps[i].count)]
             IN  updateTutorialInstructions(p2, ls, now)
        ELSE [pp |-> pp, ls |-> ls]

\* (mutant) appends the sample but leaves the thresholds as they were
recordSampleLiveStale(pp, ls, now, type, value) ==
    [pp |-> [pp EXCEPT !.samples[sampleKey(type)] = Push(@, value)], ls |-> ls]

\* recordSample, lines 161-167: the branch without a tutorial
recordSampleLive(pp, ls, now, type, value) ==
    LET key    == sampleKey(type)
        pushed == Push(pp.samples[key], value)
        kept   == IF Len(pushed) > SampleWindowCapacity THEN Shift(pushed) ELSE pushed
    IN  updateProfile([pp EXCEPT !.samples[key] = kept], ls, now)

\* recordSample, lines 169-176: the training example and the retrain request.
\* this.baselineShoulderDistance is not a field of PlayerProfile: undefined.
recordTraining(pp, now, type, value) ==
    IF type = "walk"
    THEN trainModel([pp EXCEPT !.modelTrainingData.walk =
                                   Push(@, <<value, 0, None>>)], "walk", now)
    ELSE IF type = "punchVelocity"
    THEN LET angles == pp.samples.punchElbowAngles
             last   == IF Len(angles) > 0 /\ angles[Len(angles)] # 0
                       THEN angles[Len(angles)]
                       ELSE 20
         IN  trainModel([pp EXCEPT !.modelTrainingData.punch =
                                       Push(@, <<value, last, None>>)], "punch", now)
    ELSE pp

\* (mutant) an invalid type is warned about and the profile is recomputed
recordSampleRecomputing(pp, ls, now, type, value) ==
    IF type \notin validTypes
    THEN updateProfile([pp EXCEPT !.warnings = @ + 1], ls, now)
    ELSE LET r == IF pp.tutorialState = "active"
                  THEN recordSampleTutorial(pp, ls, now, type, value)
                  ELSE recordSampleLive(pp, ls, now, type, value)
         IN  [pp |-> recordTraining(r.pp, now, type, value), ls |-> r.ls]

\* recordSample(type, value)
recordSample(pp, ls, now, type, value) ==
    IF type \notin validTypes
    THEN [pp |-> [pp EXCEPT !.warnings = @ + 1], ls |-> ls]
    ELSE LET r == IF pp.tutorialState = "active"
                  THEN recordSampleTutorial(pp, ls, now, type, value)
                  ELSE recordSampleLive(pp, ls, now, type, value)
         IN  [pp |-> recordTraining(r.pp, now, type, value), ls |-> r.ls]

(***************************************************************************)
(* Player.js (src/unnamed/part_001)                                        *)
(***************************************************************************)
Pi == 314          \* Math.PI, in hundredths of a radian
HalfPi == 157      \* Math.PI / 2

\* Math.sin and Math.cos of a yaw in hundredths of a radian, times 100
\* (Bhaskara's rational approximation; exact at the multiples of pi/2)
SinHalfTurn(x) == (1600 * x * (Pi - x)) \div (5 * Pi * Pi - 4 * x * (Pi - x))
Sin100(a) ==
    LET r == a % (2 * Pi)
    IN  IF r <= Pi THEN SinHalfTurn(r) ELSE -SinHalfTurn(r - Pi)
Cos100(a) == Sin100(a + HalfPi)

Vec3(x, y, z) == [x |-> x, y |-> y, z |-> z]
ZeroVec == Vec3(0, 0, 0)

PlayerInit ==
    [ character      |-> FALSE,         \* null until createPlayer
      position       |-> ZeroVec,       \* character.position, thousandths
      characterSpeed |-> 100,           \* 1.0
      characterYaw   |-> Pi,
      targetYaw      |-> Pi,
      velocity       |-> ZeroVec,
      lastStep       |-> 0,
      useMotion      |-> FALSE,
      lastWristTime  |-> 0,
      lastLeftWristPos  |-> None,
      lastRightWristPos |-> None,
      stepCount      |-> 0,
      threw          |-> FALSE ]        \* the last update() ended in a TypeError

\* this.player.velocity.set(sin(yaw) * speed, 0, cos(yaw) * speed)
stepVelocity(pl) ==
    Vec3((Sin100(pl.characterYaw) * pl.characterSpeed) \div 100, 0,
         (Cos100(pl.characterYaw) * pl.characterSpeed) \div 100)

\* EnvironmentGeneration.getTerrainHeight(x, z), thousandths: the terrain
\* is taken level
getTerrainHeight(x, z) == 0

\* createPlayer(baseHeight): a new character at the origin
createPlayer(pl, baseHeight) ==
    [pl EXCEPT !.character = TRUE,
               !.position = Vec3(0, baseHeight + 900, 0)]

\* Math.exp(-dt / 500) times 100, for dt in ms: 1 / (1 + x + x^2 / 2)
decay(dtMs) == (100 * 500000) \div (500000 + 1000 * dtMs + dtMs * dtMs)

\* a component times a factor in hundredths, rounded towards zero
Scale(v, factor) ==
    IF v >= 0 THEN (v * factor) \div 100 ELSE -(((-v) * factor) \div 100)

\* Vector3.length() > 0
IsMoving(v) == v.x # 0 \/ v.y # 0 \/ v.z # 0

\* moveCharacter(getTerrainHeight): velocity is per frame, in hundredths
moveCharacter(pl) ==
    LET x == Max(-25000, Min(25000, pl.position.x + 10 * pl.velocity.x))
        z == Max(-25000, Min(25000, pl.position.z + 10 * pl.velocity.z))
    IN  [pl EXCEPT !.position = Vec3(x, getTerrainHeight(x, z) + 900, z)]

\* THREE.MathUtils.lerp(characterYaw, targetYaw, 0.1)
lerpYaw(yaw, target) == yaw + Scale(target - yaw, 10)

KeyboardSpeed == 20       \* const speed = 0.2
KeyboardTurn == 5         \* 0.05 rad per frame

\* lines 110-113 and 124-127: the step is counted and
\* this.profile.awardXP('walking', 1) is called.  PlayerProfile defines
\* recordAction but no awardXP, so the call throws a TypeError and update()
\* ends there, keeping what it had assigned so far.
countStep(pl) == [pl EXCEPT !.stepCount = @ + 1, !.threw = TRUE]

\* update(getTerrainHeight) at time now with the keys held down
update(pl, keys, now) ==
    IF ~pl.character THEN [pl EXCEPT !.threw = FALSE]
    ELSE
    LET d  == decay(now - pl.lastStep)
        p1 == moveCharacter([pl EXCEPT !.threw = FALSE, !.velocity =
                  Vec3(Scale(@.x, d), Scale(@.y, d), Scale(@.z, d))])
        p2 == [p1 EXCEPT !.characterYaw = lerpYaw(@, p1.targetYaw)]
        turnKeys(p) ==
            [p EXCEPT !.targetYaw =
                @ + (IF "ArrowLeft" \in keys THEN KeyboardTurn ELSE 0)
                  - (IF "ArrowRight" \in keys THEN KeyboardTurn ELSE 0)]
    IN  IF ~p2.useMotion
        THEN IF "ArrowUp" \in keys
             THEN LET p3 == [p2 EXCEPT
                              !.velocity =
                                 Vec3((Sin100(p2.characterYaw) * KeyboardSpeed) \div 100, 0,
                                      (Cos100(p2.characterYaw) * KeyboardSpeed) \div 100),
                              !.lastStep = now]
                  IN  countStep(p3)
             ELSE turnKeys(p2)
        ELSE IF IsMoving(p2.velocity) THEN countStep(p2) ELSE p2

(***************************************************************************)
(* MotionCapture.js: state                                                 *)
(***************************************************************************)
\* The landmarks the detectors read, and landmark 0 (the nose), which no
\* MoveNet id is remapped to.  The other 22 of the 33 are never read.
Landmarks == {0, 11, 12, 13, 14, 15, 16, 23, 24, 25, 26}

stepCooldown == 300
sampleCount == 10
smoothingFactor == 7        \* 0.7, in tenths
videoWidth == 640
videoHeight == 480

MotionCaptureInit ==
    [ useMotion         |-> FALSE,
      useShoulders      |-> TRUE,
      lastStepTime      |-> 0,
      lastStep          |-> None,
      leftKneeUp        |-> FALSE,
      rightKneeUp       |-> FALSE,
      motionInitialized |-> FALSE,
      starting          |-> 0,         \* startMotionTracking calls at an await
      loop              |-> [estimating |-> 0,   \* processFrames chains at the
                              scheduled  |-> 0],  \* await / waiting for a frame
      captures          |-> 0,         \* Camera objects started and not stopped
      cameras           |-> 0,         \* this.cameras.length
      currentCameraIndex |-> 0,
      cameraSwitchCooldown |-> FALSE,
      switching         |-> "idle",    \* where the accepted cycleCamera call is
      cooldownUntil     |-> 0,         \* when its timer is due
      smoothedLandmarks |-> [i \in Landmarks |-> ZeroVec],
      baselineShoulderDistance |-> DefaultBaselineShoulderDistance,
      distanceSamples   |-> <<>>,
      lastLeftShoulderX |-> 0,
      lastRightShoulderX |-> 0,
      lastLeftHipY      |-> 0,
      lastRightHipY     |-> 0,
      hipOscillationCount |-> 0,
      lastHipStepTime   |-> 0,
      mpResults         |-> None,
      tfResults         |-> None ]

\* What one run of combineResults computed and emitted; count is the number
\* of frames handled so far, shoulders the number of those in which a source
\* gave both shoulders.
NoFrame ==
    [ count |-> 0, shoulders |-> 0,
      ran |-> FALSE, now |-> 0, step |-> "none", via |-> "none",
      turned |-> FALSE, distance |-> 0, ratioBase |-> 0, rotationSpeed |-> 0,
      punch |-> "none",
      leftPunchVelocity |-> 0, rightPunchVelocity |-> 0,
      leftElbowAngle |-> 0, rightElbowAngle |-> 0,
      samples |-> <<>>,
      threw |-> FALSE ]      \* combineResults ended in an exception

\* The state a handler works on: the three objects, the store and the
\* record of the run.
Ctx(m, pl, pp, ls, f) == [m |-> m, pl |-> pl, pp |-> pp, ls |-> ls, f |-> f]

\* (mutant) the detectors take over the baseline the profile recomputed
callRecordSampleSyncing(c, now, type, value) ==
    LET r == recordSample(c.pp, c.ls, now, type, value)
    IN  [c EXCEPT !.pp = r.pp, !.ls = r.ls,
                  !.m.baselineShoulderDistance = r.pp.profile.baselineShoulderDistance,
                  !.f.samples = Append(@, <<type, value>>)]

\* this.profile.recordSample(type, value), called from combineResults
callRecordSample(c, now, type, value) ==
    LET r == recordSample(c.pp, c.ls, now, type, value)
    IN  [c EXCEPT !.pp = r.pp, !.ls = r.ls,
                  !.f.samples = Append(@, <<type, value>>)]

(***************************************************************************)
(* combineResults, lines 284-337: fusion and smoothing                     *)
(***************************************************************************)
\* const keypointMap = {...}: 0 stands for undefined
keypointMap(id) ==
    CASE id = 5  -> 11  [] id = 6  -> 12
      [] id = 11 -> 23  [] id = 12 -> 24
      [] id = 13 -> 25  [] id = 14 -> 26
      [] id = 7  -> 13  [] id = 8  -> 14
      [] id = 9  -> 15  [] id = 10 -> 16
      [] OTHER -> 0

IsZero(kp) == kp.x = 0 /\ kp.y = 0

\* (mutant) a visibility of exactly 0.5 counts as seen
blendMediaPipeInclusive(mp) ==
    [i \in Landmarks |->
        IF mp # None /\ Get(mp).poseLandmarks # None
           /\ Get(Get(mp).poseLandmarks)[i].visibility >= 50
        THEN LET kp == Get(Get(mp).poseLandmarks)[i] IN Vec3(kp.x, kp.y, kp.z)
        ELSE ZeroVec]

\* lines 302-308: the MediaPipe landmarks with visibility above 0.5
blendMediaPipe(mp) ==
    [i \in Landmarks |->
        IF mp # None /\ Get(mp).poseLandmarks # None
           /\ Get(Get(mp).poseLandmarks)[i].visibility > 50
        THEN LET kp == Get(Get(mp).poseLandmarks)[i] IN Vec3(kp.x, kp.y, kp.z)
        ELSE ZeroVec]

\* lines 312-326: one MoveNet keypoint
blendKeypoint(landmarks, kp) ==
    LET mappedIndex == keypointMap(kp.id)
        tfKp == Vec3((kp.x * 100) \div videoWidth, (kp.y * 100) \div videoHeight, 0)
    IN  IF mappedIndex # 0 /\ kp.score > 50
        THEN IF ~IsZero(landmarks[mappedIndex])
             THEN [landmarks EXCEPT ![mappedIndex] =
                      Vec3((@.x + tfKp.x) \div 2, (@.y + tfKp.y) \div 2,
                           (@.z + tfKp.z) \div 2)]
             ELSE [landmarks EXCEPT ![mappedIndex] = tfKp]
        ELSE landmarks

\* lines 310-328: this.tfResults.keypoints.forEach(...)
RECURSIVE blendMoveNet(_, _)
blendMoveNet(landmarks, keypoints) ==
    IF keypoints = <<>> THEN landmarks
    ELSE blendMoveNet(blendKeypoint(landmarks, Head(keypoints)), Tail(keypoints))

\* lines 284-328
fuse(mp, tf) ==
    blendMoveNet(blendMediaPipe(mp),
                 IF tf # None THEN Get(tf).keypoints ELSE <<>>)

ema(prev, new) ==
    (smoothingFactor * prev + (10 - smoothingFactor) * new) \div 10

\* lines 330-337
smooth(smoothed, landmarks) ==
    [i \in Landmarks |->
        IF ~IsZero(landmarks[i])
        THEN Vec3(ema(smoothed[i].x, landmarks[i].x),
                  ema(smoothed[i].y, landmarks[i].y),
                  ema(smoothed[i].z, landmarks[i].z))
        ELSE smoothed[i]]

(***************************************************************************)
(* combineResults, lines 369-442: walking detection                        *)
(***************************************************************************)
kneeThreshold == -5     \* -0.05
hipThreshold == 2       \* 0.02

\* (mutant) the cooldown admits a step at exactly stepCooldown
cooldownElapsedInclusive(m, now) == now - m.lastStepTime >= stepCooldown

\* (mutant) no cooldown at all
cooldownIgnored(m, now) == TRUE

\* now - this.lastStepTime > this.stepCooldown
cooldownElapsed(m, now) == now - m.lastStepTime > stepCooldown

\* The body of each of the four accepting branches (lines 382-391, 393-402,
\* 413-423, 425-435): leg is "left" or "right", via is "knee" or "hip".
acceptStep(c, now, leg, via) ==
    LET c1 == [c EXCEPT !.m.leftKneeUp   = IF leg = "left" THEN TRUE ELSE @,
                        !.m.rightKneeUp  = IF leg = "right" THEN TRUE ELSE @,
                        !.m.lastStep     = Some(now),
                        !.pl.velocity    = stepVelocity(c.pl),
                        !.m.lastStepTime = now,
                        !.f.step = leg,
                        !.f.via  = via]
        c2 == callRecordSample(c1, now, "walk", (now - c.m.lastHipStepTime) \div 10)
    IN  [c2 EXCEPT !.m.lastHipStepTime = now,
                   !.m.hipOscillationCount = IF via = "hip" THEN @ + 1 ELSE @]

leftKneeHeight(sm) == sm[25].y - sm[23].y
rightKneeHeight(sm) == sm[26].y - sm[24].y

\* (mutant) a raised leg may step again
kneeWalkingUnlatched(c, now) ==
    LET sm == c.m.smoothedLandmarks
        lh == leftKneeHeight(sm)
        rh == rightKneeHeight(sm)
        c1 == IF lh < kneeThreshold /\ cooldownElapsed(c.m, now)
              THEN acceptStep(c, now, "left", "knee")
              ELSE IF rh < kneeThreshold /\ cooldownElapsed(c.m, now)
              THEN acceptStep(c, now, "right", "knee")
              ELSE c
    IN  [c1 EXCEPT !.m.leftKneeUp  = IF lh >= kneeThreshold THEN FALSE ELSE @,
                   !.m.rightKneeUp = IF rh >= kneeThreshold THEN FALSE ELSE @]

\* lines 376-405: primary, knee-based walking
kneeWalking(c, now) ==
    LET sm == c.m.smoothedLandmarks
        lh == leftKneeHeight(sm)
        rh == rightKneeHeight(sm)
        c1 == IF lh < kneeThreshold /\ ~c.m.leftKneeUp /\ cooldownElapsed(c.m, now)
              THEN acceptStep(c, now, "left", "knee")
              ELSE IF rh < kneeThreshold /\ ~c.m.rightKneeUp /\ cooldownElapsed(c.m, now)
              THEN acceptStep(c, now, "right", "knee")
              ELSE c
    IN  [c1 EXCEPT !.m.leftKneeUp  = IF lh >= kneeThreshold THEN FALSE ELSE @,
                   !.m.rightKneeUp = IF rh >= kneeThreshold THEN FALSE ELSE @]

\* lines 407-441: fallback, hip-based walking
hipWalking(c, now) ==
    LET sm == c.m.smoothedLandmarks
        leftHip  == sm[23]
        rightHip == sm[24]
        leftHipYDelta  == leftHip.y -
            (IF c.m.lastLeftHipY # 0 THEN c.m.lastLeftHipY ELSE leftHip.y)
        rightHipYDelta == rightHip.y -
            (IF c.m.lastRightHipY # 0 THEN c.m.lastRightHipY ELSE rightHip.y)
        c1 == IF leftHipYDelta > hipThreshold /\ ~c.m.leftKneeUp
                 /\ cooldownElapsed(c.m, now)
              THEN acceptStep(c, now, "left", "hip")
              ELSE IF rightHipYDelta > hipThreshold /\ ~c.m.rightKneeUp
                      /\ cooldownElapsed(c.m, now)
              THEN acceptStep(c, now, "right", "hip")
              ELSE c
    IN  [c1 EXCEPT !.m.leftKneeUp  = IF leftHipYDelta <= hipThreshold THEN FALSE ELSE @,
                   !.m.rightKneeUp = IF rightHipYDelta <= hipThreshold THEN FALSE ELSE @,
                   !.m.lastLeftHipY  = leftHip.y,
                   !.m.lastRightHipY = rightHip.y]

\* lines 375 and 406: which of the two detectors runs, if any
kneesUsable(sm) == ~IsZero(sm[25]) /\ ~IsZero(sm[26])
hipsUsable(sm) == ~IsZero(sm[23]) /\ ~IsZero(sm[24])

walkingDetection(c, now) ==
    IF kneesUsable(c.m.smoothedLandmarks) THEN kneeWalking(c, now)
    ELSE IF hipsUsable(c.m.smoothedLandmarks) THEN hipWalking(c, now)
    ELSE c

(***************************************************************************)
(* combineResults, lines 444-502: shoulder-distance turning                *)
(***************************************************************************)
distanceThreshold == 9      \* 0.9, in tenths
profileThreshold == 5       \* 0.5, in tenths
MaxRotation == 20           \* intensity cap 2 times the gain 0.1: 0.2 rad

\* Math.sqrt, rounded down (bisection between lo and hi)
RECURSIVE IsqrtBetween(_, _, _)
IsqrtBetween(n, lo, hi) ==
    IF lo >= hi THEN lo
    ELSE LET mid == (lo + hi + 1) \div 2
         IN  IF mid * mid <= n THEN IsqrtBetween(n, mid, hi)
             ELSE IsqrtBetween(n, lo, mid - 1)
Isqrt(n) == IsqrtBetween(n, 0, 46340)

\* lines 449-452 and 580-582
shoulderDistance(sm) ==
    Isqrt((sm[12].x - sm[11].x) * (sm[12].x - sm[11].x)
          + (sm[12].y - sm[11].y) * (sm[12].y - sm[11].y))

\* distance / baseline < tenths / 10.  A zero baseline gives Infinity or
\* NaN, which is below nothing.
ratioBelow(distance, baseline, tenths) ==
    /\ baseline > 0
    /\ 10 * distance < tenths * baseline

shouldersUsable(sm) == ~IsZero(sm[11]) /\ ~IsZero(sm[12])

\* lines 455-462: establish the baseline from the first sampleCount distances
establishBaseline(c, distance) ==
    LET samples == Push(c.m.distanceSamples, distance)
        c1 == [c EXCEPT !.m.distanceSamples = samples]
    IN  IF Len(samples) = sampleCount
        THEN LET baseline == Sum(samples) \div sampleCount
                 c2 == [c1 EXCEPT !.m.baselineShoulderDistance = baseline,
                                  !.pp.profile.baselineShoulderDistance = baseline]
             IN  IF c2.ls.full
                 THEN [c2 EXCEPT !.f.threw = TRUE]
                 ELSE [c2 EXCEPT !.ls = saveProfile(c2.pp, c2.ls)]
        ELSE c1

\* (mutant) the turn is to the right whatever the shoulders did
rotationSpeedUnsigned(distance, baseline, leftShoulderXDelta, rightShoulderXDelta) ==
    -Min((MaxRotation * (baseline - distance)) \div baseline, MaxRotation)

\* lines 471-478: Math.min((1 - distanceRatio) * 2, 2) * 0.1, signed
rotationSpeed(distance, baseline, leftShoulderXDelta, rightShoulderXDelta) ==
    LET magnitude == Min((MaxRotation * (baseline - distance)) \div baseline,
                         MaxRotation)
    IN  IF Abs(leftShoulderXDelta) > Abs(rightShoulderXDelta) /\ leftShoulderXDelta > 0
        THEN -magnitude
        ELSE IF Abs(rightShoulderXDelta) > Abs(leftShoulderXDelta)
                /\ rightShoulderXDelta < 0
        THEN magnitude
        ELSE 0

\* (mutant) the clamp has no upper end
clampYawBelowOnly(newYaw) == Max(Pi - HalfPi, newYaw)

\* line 489: Math.max(initialYaw - maxYaw, Math.min(initialYaw + maxYaw, newYaw))
clampYaw(newYaw) == Max(Pi - HalfPi, Min(Pi + HalfPi, newYaw))

\* lines 480-490: the new target yaw
applyRotation(targetYaw, speed, distance, baseline) ==
    IF ratioBelow(distance, baseline, profileThreshold)
    THEN targetYaw + speed
    ELSE clampYaw(targetYaw + speed)

\* lines 464-493: detect turning
detectTurning(c, now, distance) ==
    LET sm == c.m.smoothedLandmarks
        baseline == c.m.baselineShoulderDistance
        c0 == [c EXCEPT !.f.distance = distance, !.f.ratioBase = baseline]
    IN  IF c.m.useShoulders /\ ratioBelow(distance, baseline, distanceThreshold)
        THEN LET leftShoulderXDelta == sm[11].x -
                    (IF c.m.lastLeftShoulderX # 0 THEN c.m.lastLeftShoulderX
                     ELSE sm[11].x)
                 rightShoulderXDelta == sm[12].x -
                    (IF c.m.lastRightShoulderX # 0 THEN c.m.lastRightShoulderX
                     ELSE sm[12].x)
                 speed == rotationSpeed(distance, baseline,
                                        leftShoulderXDelta, rightShoulderXDelta)
                 c1 == [c0 EXCEPT !.pl.targetYaw =
                                      applyRotation(@, speed, distance, baseline),
                                  !.f.turned = TRUE,
                                  !.f.rotationSpeed = speed]
             IN  callRecordSample(c1, now, "turn", distance)
        ELSE c0

turnDetection(c, now) ==
    LET sm == c.m.smoothedLandmarks
        distance == shoulderDistance(sm)
    IN  IF shouldersUsable(sm)
        THEN LET c1 == IF Len(c.m.distanceSamples) < sampleCount
                       THEN establishBaseline(c, distance)
                       ELSE detectTurning(c, now, distance)
                 c2 == [c1 EXCEPT !.m.lastLeftShoulderX = sm[11].x,
                                  !.m.lastRightShoulderX = sm[12].x]
             IN  IF c1.f.threw THEN c1
                 ELSE IF Len(c2.m.distanceSamples) >= sampleCount
                 THEN callRecordSample(c2, now, "shoulderDistance", distance)
                 ELSE c2
        ELSE c

(***************************************************************************)
(* combineResults, lines 504-606: punch detection                          *)
(***************************************************************************)
armReach == 8       \* 0.8: hundredths of wrist travel to thousandths of hand

\* lines 514-523: a wrist landmark mapped to a hand position (thousandths)
handPosition(pl, wrist) ==
    Vec3(pl.position.x + (50 - wrist.x) * armReach,
         pl.position.y + (50 - wrist.y) * armReach,
         pl.position.z + wrist.z * armReach)

\* lines 539-541: delta.dot(forwardDir) / dt, in hundredths of a unit per
\* second; dtMs is dt in milliseconds
forwardVelocity(pl, handPos, lastPos, dtMs) ==
    ((handPos.x - lastPos.x) * Sin100(pl.characterYaw)
     + (handPos.z - lastPos.z) * Cos100(pl.characterYaw)) \div dtMs

Dot(a, b) == a.x * b.x + a.y * b.y + a.z * b.z
Sub(a, b) == Vec3(a.x - b.x, a.y - b.y, a.z - b.z)

\* cosine of an angle in whole degrees, times 100 (Bhaskara)
CosQuarter(d) == (100 * (32400 - 4 * d * d)) \div (32400 + d * d)
CosDeg100(d) == IF d <= 90 THEN CosQuarter(d) ELSE -CosQuarter(180 - d)

\* Math.acos(c) * 180 / Math.PI for a cosine c100 / 100
AcosDeg(c100) ==
    LET c == Max(-100, Min(100, c100))
    IN  CHOOSE d \in 0..180 :
            /\ CosDeg100(d) <= c
            /\ (d = 0 \/ CosDeg100(d - 1) > c)

\* lines 544-554: the angle between shoulder->elbow and elbow->wrist.
\* Vector3.normalize() leaves a zero vector zero, so the dot product is 0.
elbowAngle(shoulder, elbow, wrist) ==
    LET a == Sub(elbow, shoulder)
        b == Sub(wrist, elbow)
        lengths == Isqrt(Dot(a, a) * Dot(b, b))
    IN  IF lengths = 0 THEN 90
        ELSE AcosDeg((100 * Dot(a, b)) \div lengths)

\* lines 580-583 and 588: distanceRatio < this.distanceThreshold, where the
\* ratio is 1 when the baseline is 0
punchRatioBelow(m) ==
    ratioBelow(shoulderDistance(m.smoothedLandmarks), m.baselineShoulderDistance,
               distanceThreshold)

\* (mutant) a punch fires in any stance
punchQualifiesAnyStance(c, velocity, angle) ==
    /\ velocity > c.pp.profile.punchVelocityThreshold
    /\ angle > c.pp.profile.punchElbowAngleThreshold

\* lines 586-588 and 596-598: one hand qualifies
punchQualifies(c, velocity, angle) ==
    /\ velocity > c.pp.profile.punchVelocityThreshold
    /\ angle > c.pp.profile.punchElbowAngleThreshold
    /\ punchRatioBelow(c.m)

\* (mutant) the elbow angle is recorded twice
resolvePunchBothAngles(c, now, handLabel, velocity, angle) ==
    LET c1 == [c EXCEPT !.f.punch = handLabel]
        c2 == callRecordSample(c1, now, "punchVelocity", velocity)
        c3 == callRecordSample(c2, now, "punchElbowAngle", angle)
    IN  callRecordSample(c3, now, "punchElbowAngle", angle)

\* lines 590-594 and 600-604 (processPunch only logs the objects in reach)
resolvePunch(c, now, handLabel, velocity, angle) ==
    LET c1 == [c EXCEPT !.f.punch = handLabel]
        c2 == callRecordSample(c1, now, "punchVelocity", velocity)
    IN  callRecordSample(c2, now, "punchElbowAngle", angle)

punchDetection(c, now) ==
    IF ~c.pl.character THEN c
    ELSE
    LET sm == c.m.smoothedLandmarks
        leftHandPos  == handPosition(c.pl, sm[15])
        rightHandPos == handPosition(c.pl, sm[16])
        dtMs == now - c.pl.lastWristTime
        leftMoved  == c.pl.lastLeftWristPos # None /\ dtMs > 0
        rightMoved == c.pl.lastRightWristPos # None /\ dtMs > 0
        leftPunchVelocity ==
            IF leftMoved
            THEN forwardVelocity(c.pl, leftHandPos, Get(c.pl.lastLeftWristPos), dtMs)
            ELSE 0
        leftElbowAngle ==
            IF leftMoved THEN elbowAngle(sm[11], sm[13], sm[15]) ELSE 0
        rightPunchVelocity ==
            IF rightMoved
            THEN forwardVelocity(c.pl, rightHandPos, Get(c.pl.lastRightWristPos), dtMs)
            ELSE 0
        rightElbowAngle ==
            IF rightMoved THEN elbowAngle(sm[12], sm[14], sm[16]) ELSE 0
        c1 == [c EXCEPT !.pl.lastWristTime = now,
                        !.pl.lastLeftWristPos  = Some(leftHandPos),
                        !.pl.lastRightWristPos = Some(rightHandPos),
                        !.f.leftPunchVelocity  = leftPunchVelocity,
                        !.f.rightPunchVelocity = rightPunchVelocity,
                        !.f.leftElbowAngle  = leftElbowAngle,
                        !.f.rightElbowAngle = rightElbowAngle]
    IN  IF punchQualifies(c1, leftPunchVelocity, leftElbowAngle)
        THEN resolvePunch(c1, now, "left", leftPunchVelocity, leftElbowAngle)
        ELSE IF punchQualifies(c1, rightPunchVelocity, rightElbowAngle)
        THEN resolvePunch(c1, now, "right", rightPunchVelocity, rightElbowAngle)
        ELSE c1

(***************************************************************************)
(* combineResults, the whole handler                                       *)
(***************************************************************************)
combineResults(c, now) ==
    IF c.m.mpResults = None /\ c.m.tfResults = None
    THEN c
    ELSE LET landmarks == fuse(c.m.mpResults, c.m.tfResults)
             c1 == [c EXCEPT !.m.smoothedLandmarks = smooth(@, landmarks),
                             !.f.shoulders = IF shouldersUsable(landmarks)
                                             THEN @ + 1 ELSE @,
                             !.f.ran = TRUE,
                             !.f.now = now]
             c2 == turnDetection(walkingDetection(c1, now), now)
         IN  IF c2.f.threw THEN c2 ELSE punchDetection(c2, now)

\* stopMotionTracking(): the stream and the Camera that this.camera holds are
\* stopped (the canvases are not modelled)
stopMotionTracking(m, pp) ==
    IF ~m.motionInitialized THEN m
    ELSE [m EXCEPT !.motionInitialized = FALSE,
                   !.captures = @ - 1,
                   !.baselineShoulderDistance = pp.profile.baselineShoulderDistance,
                   !.distanceSamples = <<>>,
                   !.hipOscillationCount = 0,
                   !.lastHipStepTime = 0]

(***************************************************************************)
(* Initial state: the three objects as index.html constructs them, with    *)
(* an empty store.                                                         *)
(***************************************************************************)
Init ==
    /\ profile = PlayerProfileInit
    /\ motion = MotionCaptureInit
    /\ player = PlayerInit
    /\ localStorage = localStorageInit
    /\ clock = 0
    /\ frame = NoFrame

\* The state after a handler that ran on context c
Becomes(c) ==
    /\ motion' = c.m
    /\ player' = c.pl
    /\ profile' = c.pp
    /\ localStorage' = c.ls
    /\ frame' = c.f

(***************************************************************************)
(* Handlers                                                                *)
(***************************************************************************)
\* index.html generateEnvironment(): envGen.generate(data, player) ends with
\* player.createPlayer(...)
GenerateEnvironment ==
    /\ player' = createPlayer(player, getTerrainHeight(0, 0))
    /\ UNCHANGED <<profile, motion, localStorage, clock, frame>>

\* index.html animate() at time now: player.update(...) with the keys that
\* are down (envMan.update() and the renderer are not modelled)
animate(keys, now) ==
    /\ clock' = now
    /\ player' = update(player, keys, now)
    /\ UNCHANGED <<profile, motion, localStorage, frame>>

\* startMotionTracking(), lines 106-115: nothing when tracking is
\* initialized; otherwise the call goes to its first await.  The flag is
\* looked at here only, not again after the awaits.
startMotionTracking(m) ==
    IF m.motionInitialized THEN m ELSE [m EXCEPT !.starting = @ + 1]

\* the startMotionTracking call that cycleCamera awaits (line 223), which
\* goes on in cycleCamera when it settles
AwaitedStarts(m) == IF m.switching = "restarting" THEN 1 ELSE 0

\* index.html toggleMotion() with the box checked: the flags are set and
\* startMotionTracking runs up to its first await
ToggleMotionOn ==
    /\ ~motion.useMotion
    /\ motion' = startMotionTracking([motion EXCEPT !.useMotion = TRUE])
    /\ player' = [player EXCEPT !.useMotion = TRUE]
    /\ UNCHANGED <<profile, localStorage, clock, frame>>

\* processFrames(), lines 235-267: the call returns, and its chain ends,
\* unless tracking is initialized and motion is enabled; otherwise the frame
\* is prepared and MoveNet is asked for the poses (await)
processFramesEnters(m) ==
    IF ~m.motionInitialized \/ ~m.useMotion THEN m
    ELSE [m EXCEPT !.loop.estimating = @ + 1]

\* startMotionTracking(), line 150 on, for one of the calls in flight: the
\* stream is up, a new Camera is started (the one this.camera held, if any,
\* is not stopped) and processFrames() is called, which starts a chain
\* beside the chains that are still alive.
TrackingStarted ==
    /\ motion.starting > AwaitedStarts(motion)
    /\ motion' = processFramesEnters([motion EXCEPT !.starting = @ - 1,
                                                    !.motionInitialized = TRUE,
                                                    !.captures = @ + 1])
    /\ UNCHANGED <<profile, player, localStorage, clock, frame>>

\* startMotionTracking(), lines 171-183: the third attempt has failed and
\* motion is switched off in MotionCapture (the player is not told)
TrackingFailed ==
    /\ motion.starting > AwaitedStarts(motion)
    /\ motion' = [motion EXCEPT !.starting = @ - 1, !.useMotion = FALSE]
    /\ UNCHANGED <<profile, player, localStorage, clock, frame>>

\* index.html toggleMotion() with the box unchecked
ToggleMotionOff ==
    /\ motion.useMotion
    /\ motion' = stopMotionTracking([motion EXCEPT !.useMotion = FALSE], profile)
    /\ player' = [player EXCEPT !.useMotion = FALSE]
    /\ UNCHANGED <<profile, localStorage, clock, frame>>

\* setupMotionTracking(), lines 55-66: the video inputs are listed; the index
\* is that of the preferred or of the saved camera, -1 when there is none
CamerasListed(count, index) ==
    /\ motion.cameras = 0 /\ motion.currentCameraIndex = 0
    /\ index = -1 <=> count = 0
    /\ motion' = [motion EXCEPT !.cameras = count, !.currentCameraIndex = index]
    /\ UNCHANGED <<profile, player, localStorage, clock, frame>>

cooldownDelay == 1000   \* line 226

\* cycleCamera(), lines 224-226: the timer that clears the flag is set
armCooldown(m, now) ==
    [m EXCEPT !.switching = "cooling", !.cooldownUntil = now + cooldownDelay]

\* (mutant) a call is accepted whatever the flag says
cycleCameraUnguarded(m, pp) ==
    IF m.cameras <= 1 THEN m
    ELSE [stopMotionTracking([m EXCEPT !.cameraSwitchCooldown = TRUE], pp)
            EXCEPT !.switching = "stopped"]

\* cycleCamera(), lines 211-221: up to the await of stopMotionTracking(),
\* which has run by then
cycleCamera(m, pp) ==
    IF m.cameras <= 1 THEN m
    ELSE IF m.cameraSwitchCooldown THEN m
    ELSE [stopMotionTracking([m EXCEPT !.cameraSwitchCooldown = TRUE], pp)
            EXCEPT !.switching = "stopped"]

\* index.html cycleCamera(), the Cycle Camera button
CycleCamera ==
    /\ motion' = cycleCamera(motion, profile)
    /\ UNCHANGED <<profile, player, localStorage, clock, frame>>

\* cycleCamera(), lines 222-223: the index moves on and startMotionTracking()
\* is called; when it returns at once the timer is set
CycleCameraResumes ==
    /\ motion.switching = "stopped"
    /\ LET m1 == [motion EXCEPT !.currentCameraIndex = (@ + 1) % motion.cameras]
           m2 == startMotionTracking(m1)
       IN  motion' = IF m1.motionInitialized THEN armCooldown(m2, clock)
                     ELSE [m2 EXCEPT !.switching = "restarting"]
    /\ UNCHANGED <<profile, player, localStorage, clock, frame>>

\* the startMotionTracking() call of cycleCamera succeeds (line 150 on) and
\* cycleCamera sets its timer
CameraRestarted ==
    /\ motion.switching = "restarting"
    /\ motion' = armCooldown(
                    processFramesEnters([motion EXCEPT !.starting = @ - 1,
                                                       !.motionInitialized = TRUE,
                                                       !.captures = @ + 1]),
                    clock)
    /\ UNCHANGED <<profile, player, localStorage, clock, frame>>

\* the startMotionTracking() call of cycleCamera gives up after its third
\* attempt (lines 171-183): it returns, and cycleCamera sets its timer
CameraRestartFailed ==
    /\ motion.switching = "restarting"
    /\ motion' = armCooldown([motion EXCEPT !.starting = @ - 1,
                                            !.useMotion = FALSE],
                             clock)
    /\ UNCHANGED <<profile, player, localStorage, clock, frame>>

\* cycleCamera(), lines 224-226: the timer fires, not before it is due
CooldownExpires ==
    /\ motion.switching = "cooling"
    /\ clock' = Max(clock, motion.cooldownUntil)
    /\ motion' = [motion EXCEPT !.cameraSwitchCooldown = FALSE,
                                !.switching = "idle"]
    /\ UNCHANGED <<profile, player, localStorage, frame>>

\* index.html startTutorial(): the motion box is checked, toggleMotion() is
\* called (not awaited) and profile.startTutorial() runs
StartTutorial ==
    /\ LET r == startTutorial(profile, localStorage, clock)
       IN  /\ profile' = r.pp
           /\ localStorage' = r.ls
    /\ motion' = startMotionTracking([motion EXCEPT !.useMotion = TRUE])
    /\ player' = [player EXCEPT !.useMotion = TRUE]
    /\ UNCHANGED <<clock, frame>>

\* the empty record of the next frame
NextFrame == [NoFrame EXCEPT !.count = frame.count + 1,
                            !.shoulders = frame.shoulders]

\* onMediaPipeResults(results) at time now: the camera of
\* startMotionTracking delivers a result
onMediaPipeResults(results, now) ==
    /\ motion.captures > 0
    /\ clock' = now
    /\ Becomes(combineResults(
           Ctx([motion EXCEPT !.mpResults = Some(results)],
               player, profile, localStorage, NextFrame), now))

\* the animation frame requested by a processFrames() chain arrives
processFrames ==
    /\ motion.loop.scheduled > 0
    /\ motion' = processFramesEnters([motion EXCEPT !.loop.scheduled = @ - 1])
    /\ UNCHANGED <<profile, player, localStorage, clock, frame>>

\* processFrames() goes on after its await at time now, lines 267-276, with
\* the pose MoveNet returned (None for an empty list): combineResults() and
\* the request for the next animation frame
processFramesResumes(pose, now) ==
    /\ motion.loop.estimating > 0
    /\ clock' = now
    /\ Becomes(combineResults(
           Ctx([motion EXCEPT !.tfResults = pose,
                              !.loop = [estimating |-> @.estimating - 1,
                                        scheduled  |-> @.scheduled + 1]],
               player, profile, localStorage, NextFrame), now))

\* the store reaches its quota: from now on setItem throws
StorageFills ==
    /\ ~localStorage.full
    /\ localStorage' = [localStorage EXCEPT !.full = TRUE]
    /\ UNCHANGED <<profile, motion, player, clock, frame>>

\* the page is loaded on the store as it is: index.html constructs the
\* profile, the player and the motion capture.  When the PlayerProfile
\* constructor throws, the script ends there.
pageLoad(ls) ==
    LET pp == constructor(ls)
    IN  [pp |-> pp,
         m  |-> IF pp.faulted THEN MotionCaptureInit
                ELSE [MotionCaptureInit EXCEPT !.baselineShoulderDistance =
                          pp.profile.baselineShoulderDistance]]

PageReload ==
    /\ LET page == pageLoad(localStorage)
       IN  /\ profile' = page.pp
           /\ motion' = page.m
    /\ player' = PlayerInit
    /\ clock' = 0
    /\ frame' = NoFrame
    /\ UNCHANGED localStorage

\* profile.recordSample(type, value) called directly
RecordSampleCall(type, value) ==
    /\ LET r == recordSample(profile, localStorage, clock, type, value)
       IN  /\ profile' = r.pp
           /\ localStorage' = r.ls
    /\ UNCHANGED <<motion, player, clock, frame>>

\* profile.recordSample(type, value) called at time now
RecordSampleAt(type, value, now) ==
    /\ clock' = now
    /\ LET r == recordSample(profile, localStorage, now, type, value)
       IN  /\ profile' = r.pp
           /\ localStorage' = r.ls
    /\ UNCHANGED <<motion, player, frame>>

\* model.fit finishes an epoch of the pass in flight and calls onEpochEnd
OnEpochEnd ==
    /\ profile.training # None
    /\ Get(profile.training).epoch < epochs
    /\ profile' = onEpochEnd(profile)
    /\ UNCHANGED <<motion, player, localStorage, clock, frame>>

\* model.fit resolves after the last epoch: trainModel goes on after its
\* await and saves the model
TrainModelResumes ==
    /\ profile.training # None
    /\ Get(profile.training).epoch = epochs
    /\ profile' = [profile EXCEPT !.model = Some([isTraining |-> FALSE]),
                                  !.training = None]
    /\ localStorage' = saveModel(profile, localStorage)
    /\ UNCHANGED <<motion, player, clock, frame>>

\* the pass in flight fails (a backend error, a throwing epoch callback)
TrainModelFails ==
    /\ profile.training # None
    /\ profile' = fitRejects(profile)
    /\ UNCHANGED <<motion, player, localStorage, clock, frame>>

\* profile.recordAction(action, xp) called directly
RecordActionCall(action, xp) ==
    /\ profile' = recordAction(profile, action, xp)
    /\ UNCHANGED <<motion, player, localStorage, clock, frame>>

\* profile.startTutorial() called directly
StartTutorialCall ==
    /\ LET r == startTutorial(profile, localStorage, clock)
       IN  /\ profile' = r.pp
           /\ localStorage' = r.ls
    /\ UNCHANGED <<motion, player, clock, frame>>

(***************************************************************************)
(* SpecProfile: the profile driven through recordSample and startTutorial  *)
(* with two values per window, the windows kept short by MaxCalls.         *)
(***************************************************************************)
MaxCalls == 2

SampleTypes == validTypes

SampleValues(type) ==
    CASE type = "walk"             -> {40, 70}
      [] type = "turn"             -> {17}
      [] type = "shoulderDistance" -> {20}
      [] type = "punchVelocity"    -> {80}
      [] type = "punchElbowAngle"  -> {45}
      [] OTHER                     -> {1}

\* how many calls of a type the run has made, as far as the state shows it
CallsSoFar(type) ==
    CASE type = "walk"          -> Len(profile.modelTrainingData.walk)
      [] type = "punchVelocity" -> Len(profile.modelTrainingData.punch)
      [] type \in validTypes    -> Len(profile.samples[sampleKey(type)])
      [] OTHER                  -> profile.warnings

RecordSample ==
    \E type \in SampleTypes : \E value \in SampleValues(type) :
        /\ CallsSoFar(type) < MaxCalls
        /\ RecordSampleCall(type, value)

NextProfile == RecordSample \/ StartTutorialCall

SpecProfile == Init /\ [][NextProfile]_vars

(***************************************************************************)
(* SpecTutorial: the calls the frame path makes, one value per type, long  *)
(* enough for the tutorial steps to reach their counts.  The tutorial is   *)
(* started once.                                                           *)
(***************************************************************************)
MaxTutorialCalls == 11
MaxLiveCalls == 1

\* the calls of one kind a run may make: few before the tutorial starts
CallBudget ==
    IF profile.tutorialState = Null THEN MaxLiveCalls
    ELSE MaxLiveCalls + MaxTutorialCalls

TutorialValue(type) ==
    CASE type = "walk"             -> 40
      [] type = "turn"             -> 17
      [] type = "shoulderDistance" -> 20
      [] type = "punchVelocity"    -> 80
      [] type = "punchElbowAngle"  -> 45

StartTutorialOnce ==
    /\ profile.tutorialState = Null
    /\ StartTutorialCall

\* a step accepted by the walk detector: recordSample('walk', cadence)
WalkSample ==
    /\ Len(profile.modelTrainingData.walk) < CallBudget
    /\ RecordSampleCall("walk", TutorialValue("walk"))

\* a frame of the turn detector below the distance threshold:
\* recordSample('turn', d) and then recordSample('shoulderDistance', d)
TurnSamples ==
    /\ Len(profile.samples.shoulderDistances) < 2 * CallBudget
    /\ LET r1 == recordSample(profile, localStorage, clock, "turn", TutorialValue("turn"))
           r2 == recordSample(r1.pp, r1.ls, clock, "shoulderDistance",
                              TutorialValue("turn"))
       IN  /\ profile' = r2.pp
           /\ localStorage' = r2.ls
    /\ UNCHANGED <<motion, player, clock, frame>>

\* a resolved punch: recordSample('punchVelocity', v) and then
\* recordSample('punchElbowAngle', a)
PunchSamples ==
    /\ Len(profile.modelTrainingData.punch) < CallBudget
    /\ LET r1 == recordSample(profile, localStorage, clock, "punchVelocity",
                              TutorialValue("punchVelocity"))
           r2 == recordSample(r1.pp, r1.ls, clock, "punchElbowAngle",
                              TutorialValue("punchElbowAngle"))
       IN  /\ profile' = r2.pp
           /\ localStorage' = r2.ls
    /\ UNCHANGED <<motion, player, clock, frame>>

NextTutorial == StartTutorialOnce \/ WalkSample \/ TurnSamples \/ PunchSamples

SpecTutorial == Init /\ [][NextTutorial]_vars

(***************************************************************************)
(* SpecWindow: walk samples up to and past the capacity of a window, with  *)
(* the tutorial started at any point.                                      *)
(***************************************************************************)
MaxWalkCalls == 102

WalkSampleLong ==
    /\ Len(profile.modelTrainingData.walk) < MaxWalkCalls
    /\ RecordSampleCall("walk", TutorialValue("walk"))

NextWindow == WalkSampleLong \/ StartTutorialCall

SpecWindow == Init /\ [][NextWindow]_vars

(***************************************************************************)
(* Poses: what the two pose sources deliver for a frame                    *)
(***************************************************************************)
\* a MediaPipe result in which the landmarks of DOMAIN seen are visible
\* (visibility 0.9) at the given positions and the others are not (0)
MediaPipePose(seen) ==
    [poseLandmarks |->
        Some([i \in Landmarks |->
                IF i \in DOMAIN seen
                THEN [x |-> seen[i].x, y |-> seen[i].y, z |-> seen[i].z,
                      visibility |-> 90]
                ELSE [x |-> 0, y |-> 0, z |-> 0, visibility |-> 0]])]

\* a MediaPipe result without a person in the picture
MediaPipeEmpty == [poseLandmarks |-> None]

\* the times a handler may run at: the clock advanced by the frame period,
\* up to maxTicks periods after the page was loaded
FramePeriod == {100}
NextTimes(maxTicks) ==
    {t \in {clock + g : g \in FramePeriod} : t <= maxTicks * 100}

(***************************************************************************)
(* SpecWalk: MediaPipe frames of a person walking in place; first only     *)
(* the hips are visible, then hips and knees.                              *)
(***************************************************************************)
MaxWalkTicks == 8

Hips(ly, ry) == (23 :> Vec3(45, ly, 0)) @@ (24 :> Vec3(55, ry, 0))
Knees(ly, ry) == (25 :> Vec3(45, ly, 0)) @@ (26 :> Vec3(55, ry, 0))

HipPoses ==
    { MediaPipePose(Hips(50, 50)),      \* hips level
      MediaPipePose(Hips(60, 50)),      \* left hip dips
      MediaPipePose(Hips(50, 60)) }     \* right hip dips

KneePoses ==
    { MediaPipePose(Hips(50, 50) @@ Knees(60, 60)),    \* standing
      MediaPipePose(Hips(50, 50) @@ Knees(0, 60)),     \* left knee raised
      MediaPipePose(Hips(50, 50) @@ Knees(60, 0)) }    \* right knee raised

HipFrame ==
    /\ ~kneesUsable(motion.smoothedLandmarks)
    /\ \E results \in HipPoses : \E now \in NextTimes(MaxWalkTicks) :
          onMediaPipeResults(results, now)

KneeFrame ==
    \E results \in KneePoses : \E now \in NextTimes(MaxWalkTicks) :
        onMediaPipeResults(results, now)

NextWalk ==
    \/ ToggleMotionOn
    \/ TrackingStarted
    \/ HipFrame
    \/ KneeFrame

SpecWalk == Init /\ [][NextWalk]_vars

(***************************************************************************)
(* SpecTurn: the player turns with the left arrow key, then switches to    *)
(* motion control; the first frames establish the baseline shoulder        *)
(* distance from a square stance, the following ones twist the shoulders.  *)
(***************************************************************************)
MaxKeyFrames == 32
MaxTurnFrames == 3
AnimationPeriod == 16

Shoulders(lx, rx) == (11 :> Vec3(lx, 30, 0)) @@ (12 :> Vec3(rx, 30, 0))

Square == MediaPipePose(Shoulders(30, 56))

TurnPoses ==
    { Square,
      MediaPipePose(Shoulders(54, 56)),     \* the left shoulder swings right
      MediaPipePose(Shoulders(30, 32)),     \* the right shoulder swings left
      MediaPipePose(Shoulders(39, 47)) }    \* both shoulders draw in

KeyboardFrame ==
    /\ player.character
    /\ ~player.useMotion
    /\ clock + AnimationPeriod <= MaxKeyFrames * AnimationPeriod
    /\ animate({"ArrowLeft"}, clock + AnimationPeriod)

BaselineFrame ==
    /\ Len(motion.distanceSamples) < sampleCount
    /\ \E now \in {clock + g : g \in FramePeriod} :
          onMediaPipeResults(Square, now)

TurnFrame ==
    /\ Len(motion.distanceSamples) = sampleCount
    /\ frame.count < sampleCount + MaxTurnFrames
    /\ \E results \in TurnPoses : \E now \in {clock + g : g \in FramePeriod} :
          onMediaPipeResults(results, now)

NextTurn ==
    \/ GenerateEnvironment
    \/ KeyboardFrame
    \/ ToggleMotionOn
    \/ TrackingStarted
    \/ BaselineFrame
    \/ TurnFrame

SpecTurn == Init /\ [][NextTurn]_vars

(***************************************************************************)
(* SpecCalibrate: motion control is switched on, by its checkbox or by the *)
(* tutorial button, and the camera delivers frames of the shoulders; the   *)
(* tutorial may be started before, during or after the baseline frames.    *)
(***************************************************************************)
MaxCalibrateTicks == 11

CalibratePoses ==
    { Square,
      MediaPipePose(Shoulders(34, 52)) }    \* both shoulders draw in

StartTutorialButton ==
    /\ profile.tutorialState = Null
    /\ StartTutorial

CalibrateFrame ==
    \E results \in CalibratePoses : \E now \in NextTimes(MaxCalibrateTicks) :
        onMediaPipeResults(results, now)

NextCalibrate ==
    \/ ToggleMotionOn
    \/ StartTutorialButton
    \/ TrackingStarted
    \/ CalibrateFrame

SpecCalibrate == Init /\ [][NextCalibrate]_vars

(***************************************************************************)
(* SpecPunch: a player in a square stance, arms in view, who holds a       *)
(* guard, jabs with the left, the right or both fists, or pushes the left  *)
(* arm straight out.                                                       *)
(***************************************************************************)
MaxPunchTicks == 4

LeftArm(elbow, wrist) == (13 :> elbow) @@ (15 :> wrist)
RightArm(elbow, wrist) == (14 :> elbow) @@ (16 :> wrist)

LeftGuard == LeftArm(Vec3(28, 45, 0), Vec3(30, 35, 0))
RightGuard == RightArm(Vec3(58, 45, 0), Vec3(56, 35, 0))
LeftJab == LeftArm(Vec3(28, 45, 0), Vec3(30, 30, -50))
RightJab == RightArm(Vec3(58, 45, 0), Vec3(56, 30, -50))
LeftStraight == LeftArm(Vec3(30, 30, -25), Vec3(30, 30, -50))

PunchPoses ==
    { MediaPipePose(Shoulders(30, 56) @@ arms) :
        arms \in { LeftGuard @@ RightGuard, LeftJab @@ RightGuard,
                   LeftGuard @@ RightJab, LeftJab @@ RightJab,
                   LeftStraight @@ RightGuard } }

PunchFrame ==
    \E results \in PunchPoses : \E now \in NextTimes(MaxPunchTicks) :
        onMediaPipeResults(results, now)

NextPunch ==
    \/ GenerateEnvironment
    \/ ToggleMotionOn
    \/ TrackingStarted
    \/ PunchFrame

SpecPunch == Init /\ [][NextPunch]_vars

(***************************************************************************)
(* SpecFusion: both pose sources deliver shoulders, each either clearly    *)
(* seen (0.9) or at a confidence of exactly 0.5.                           *)
(***************************************************************************)
MaxFusionTicks == 4

\* a MediaPipe result like MediaPipePose(seen), at the given visibility
MediaPipePoseAt(seen, visibility) ==
    [poseLandmarks |->
        Some([i \in Landmarks |->
                IF i \in DOMAIN seen
                THEN [x |-> seen[i].x, y |-> seen[i].y, z |-> seen[i].z,
                      visibility |-> visibility]
                ELSE [x |-> 0, y |-> 0, z |-> 0, visibility |-> 0]])]

\* a MoveNet pose: nose and shoulders in pixels, at the given score
MoveNetPose(lx, rx, score) ==
    [keypoints |-> << [id |-> 0, x |-> 320, y |-> 96,  score |-> score],
                     [id |-> 5, x |-> lx,  y |-> 192, score |-> score],
                     [id |-> 6, x |-> rx,  y |-> 192, score |-> score] >>]

FusionMediaPipePoses ==
    { MediaPipePoseAt(Shoulders(30, 56), 90),
      MediaPipePoseAt(Shoulders(40, 50), 50),
      MediaPipeEmpty }

FusionMoveNetPoses ==
    { Some(MoveNetPose(192, 384, 90)),
      Some(MoveNetPose(256, 320, 50)),
      None }

FusionMediaPipeFrame ==
    \E results \in FusionMediaPipePoses : \E now \in NextTimes(MaxFusionTicks) :
        onMediaPipeResults(results, now)

FusionMoveNetFrame ==
    \E pose \in FusionMoveNetPoses : \E now \in NextTimes(MaxFusionTicks) :
        processFramesResumes(pose, now)

NextFusion ==
    \/ ToggleMotionOn
    \/ TrackingStarted
    \/ FusionMediaPipeFrame
    \/ FusionMoveNetFrame
    \/ processFrames

SpecFusion == Init /\ [][NextFusion]_vars

(***************************************************************************)
(* SpecSession: motion tracking is switched on and off while a person      *)
(* walks in place in front of the camera.                                  *)
(***************************************************************************)
MaxSessionTicks == 4
MaxSessionStarts == 2

\* the start calls in flight, the cameras running and the frame chains alive
InFlight(m) == m.starting + m.captures + m.loop.estimating + m.loop.scheduled

\* motion is switched on, as long as few starts, cameras and chains are about
SessionToggleOn ==
    /\ InFlight(motion) < MaxSessionStarts
    /\ ToggleMotionOn

SessionFrame ==
    \E results \in KneePoses : \E now \in NextTimes(MaxSessionTicks) :
        onMediaPipeResults(results, now)

SessionLoopFrame ==
    \E now \in NextTimes(MaxSessionTicks) : processFramesResumes(None, now)

NextSession ==
    \/ SessionToggleOn
    \/ TrackingStarted
    \/ TrackingFailed
    \/ ToggleMotionOff
    \/ SessionFrame
    \/ SessionLoopFrame
    \/ processFrames

SpecSession == Init /\ [][NextSession]_vars

(***************************************************************************)
(* SpecKinds: recordSample is called with the five valid kinds and with a  *)
(* kind it does not know, with and without a tutorial.                     *)
(***************************************************************************)
MaxKindCalls == 1

KindTypes == validTypes \cup {"jump"}

RecordKind ==
    \E type \in KindTypes : \E value \in SampleValues(type) :
        /\ CallsSoFar(type) < MaxKindCalls
        /\ RecordSampleCall(type, value)

NextKinds == RecordKind \/ StartTutorialCall

SpecKinds == Init /\ [][NextKinds]_vars

(***************************************************************************)
(* SpecKeys: the player is moved with the arrow keys, motion off.          *)
(***************************************************************************)
MaxKeysFrames == 5

KeysHeld == {{}, {"ArrowUp"}, {"ArrowLeft"}, {"ArrowUp", "ArrowRight"}}

KeysFrame ==
    /\ clock + AnimationPeriod <= MaxKeysFrames * AnimationPeriod
    /\ \E keys \in KeysHeld : animate(keys, clock + AnimationPeriod)

NextKeys ==
    \/ GenerateEnvironment
    \/ KeysFrame

SpecKeys == Init /\ [][NextKeys]_vars

(***************************************************************************)
(* SpecLedger: the two writers of the experience ledger, awards of the     *)
(* amounts the player update passes and the epochs of a training pass.     *)
(***************************************************************************)
MaxLedgerAwards == 3
MaxLedgerSamples == 1

LedgerAward ==
    \E xp \in {1, 100} :
        /\ profile.totalSteps < MaxLedgerAwards
        /\ RecordActionCall("walk", xp)

LedgerSample ==
    \E type \in {"walk", "punchVelocity"} : \E value \in SampleValues(type) :
        /\ CallsSoFar(type) < MaxLedgerSamples
        /\ RecordSampleCall(type, value)

NextLedger ==
    \/ LedgerAward
    \/ LedgerSample
    \/ OnEpochEnd
    \/ TrainModelResumes

SpecLedger == Init /\ [][NextLedger]_vars

(***************************************************************************)
(* SpecStride: a person walks in place with motion on while the animation  *)
(* loop updates the player.                                                *)
(***************************************************************************)
MaxStrideTicks == 6

StrideFrame ==
    \E results \in KneePoses : \E now \in NextTimes(MaxStrideTicks) :
        onMediaPipeResults(results, now)

StrideUpdate ==
    \E now \in NextTimes(MaxStrideTicks) : animate({}, now)

NextStride ==
    \/ GenerateEnvironment
    \/ ToggleMotionOn
    \/ TrackingStarted
    \/ StrideFrame
    \/ StrideUpdate

SpecStride == Init /\ [][NextStride]_vars

(***************************************************************************)
(* SpecReload: the page is loaded on a store whose values are absent,      *)
(* written by an earlier session, or not JSON; samples are recorded and    *)
(* the page is loaded again.                                               *)
(***************************************************************************)
MaxReloadCalls == 1

StoredProfiles ==
    { None,
      Some(JSONstringify([PlayerProfileInit.profile EXCEPT !.walkingCadence = 70])),
      Some(Corrupted) }

StoredExperiences ==
    { None,
      Some(JSONstringify([PlayerProfileInit.experience
                             EXCEPT !.walk = [xp |-> 100, level |-> 2]])),
      Some(Corrupted) }

StoredSteps == { None, Some(toString(5)) }

InitReload ==
    /\ localStorage \in
          { [localStorageInit EXCEPT !.playerProfile = sp,
                                    !.playerExperience = se,
                                    !.totalSteps = st] :
              sp \in StoredProfiles, se \in StoredExperiences, st \in StoredSteps }
    /\ profile = pageLoad(localStorage).pp
    /\ motion = pageLoad(localStorage).m
    /\ player = PlayerInit
    /\ clock = 0
    /\ frame = NoFrame

ReloadSample ==
    /\ ~profile.faulted
    /\ \E type \in SampleTypes : \E value \in SampleValues(type) :
          /\ CallsSoFar(type) < MaxReloadCalls
          /\ RecordSampleCall(type, value)

NextReload ==
    \/ ReloadSample
    \/ PageReload

SpecReload == InitReload /\ [][NextReload]_vars

(***************************************************************************)
(* SpecAward: XP is awarded to the three skills of the ledger and to a     *)
(* skill it does not have.                                                 *)
(***************************************************************************)
MaxXP == 600

AwardSkills == {"walk", "punch", "mine", "walking"}
AwardAmounts == {50, 250}

Award ==
    \E action \in AwardSkills : \E xp \in AwardAmounts :
        /\ action \in DOMAIN profile.experience => profile.experience[action].xp < MaxXP
        /\ action \notin DOMAIN profile.experience => profile.totalSteps < 1
        /\ RecordActionCall(action, xp)

NextAward == Award

SpecAward == Init /\ [][NextAward]_vars

(***************************************************************************)
(* SpecTrain: walk and punch samples arrive one frame period apart while   *)
(* the classifier trains in the background.                                *)
(***************************************************************************)
MaxTrainTicks == 3

TrainSample ==
    \E type \in {"walk", "punchVelocity"} : \E value \in SampleValues(type) :
        \E now \in NextTimes(MaxTrainTicks) :
            RecordSampleAt(type, value, now)

NextTrain ==
    \/ TrainSample
    \/ OnEpochEnd
    \/ TrainModelResumes

SpecTrain == Init /\ [][NextTrain]_vars

(***************************************************************************)
(* SpecQueue: a long walk, one sample after the other.                     *)
(***************************************************************************)
MaxQueueCalls == 1001

QueueSample ==
    /\ Len(profile.modelTrainingData.walk) < MaxQueueCalls
    /\ RecordSampleCall("walk", 40)

NextQueue == QueueSample

SpecQueue == Init /\ [][NextQueue]_vars

(***************************************************************************)
(* Claims about the calibration profile                                    *)
(***************************************************************************)
WindowKeys == {"shoulderDistances", "punchVelocities", "punchElbowAngles",
               "walkingCadences"}

\* C3: after any sequence of recordSample and startTutorial calls no sample
\* window holds more than 100 values.
C3_WindowsWithinCapacity ==
    \A k \in WindowKeys : Len(profile.samples[k]) <= SampleWindowCapacity

\* C7: while the tutorial is active the walk step is complete exactly when 10
\* walk samples have been counted, the pending step is then 'turn' (as long
\* as that one is incomplete), and no step that leaves the tutorial active
\* changes profile.walkingCadence.
TutorialActive == profile.tutorialState = "active"

C7_WalkStepAndCadence ==
    [][ profile'.tutorialState = "active" =>
          /\ profile'.profile.walkingCadence = profile.profile.walkingCadence
          /\ profile'.tutorialSteps[1].complete
                <=> (profile'.tutorialCounts.walk >= TutorialStepCount)
          /\ (profile'.tutorialCounts.walk = TutorialStepCount
              /\ profile'.tutorialCounts.turn < TutorialStepCount)
                => (currentStep(profile)' = 2 /\ ~profile'.tutorialSteps[2].complete)
      ]_vars

\* C7 witness: the walk step is complete, 'turn' is pending, and the cadence
\* window holds samples whose mean is not the profile's cadence.
C7_Witness ==
    /\ TutorialActive
    /\ profile.tutorialCounts.walk = TutorialStepCount
    /\ profile.tutorialSteps[1].complete
    /\ currentStep(profile) = 2
    /\ Len(profile.samples.walkingCadences) >= TutorialStepCount
    /\ Mean(profile.samples.walkingCadences) # profile.profile.walkingCadence

\* punchVelocity samples recorded while the tutorial was active: they reach
\* the training data but not the window
PunchesDuringTutorial ==
    Len(profile.modelTrainingData.punch) - Len(profile.samples.punchVelocities)

\* C8: once 10 walk, 10 turn and 10 punch gestures have been recorded after
\* startTutorial, every step is complete and the tutorial is deactivated.
C8_TutorialCompletes ==
    ( /\ profile.tutorialCounts.walk >= TutorialStepCount
      /\ profile.tutorialCounts.turn >= TutorialStepCount
      /\ PunchesDuringTutorial >= TutorialStepCount )
    => ( /\ \A i \in 1..3 : profile.tutorialSteps[i].complete
         /\ profile.tutorialState = Null )

ThresholdsAreMeans(pp) ==
    /\ pp.profile.baselineShoulderDistance =
          (IF pp.samples.shoulderDistances = <<>> THEN 20
           ELSE Mean(pp.samples.shoulderDistances))
    /\ pp.profile.punchVelocityThreshold =
          (IF pp.samples.punchVelocities = <<>> THEN 50
           ELSE Mean(pp.samples.punchVelocities))
    /\ pp.profile.punchElbowAngleThreshold =
          (IF pp.samples.punchElbowAngles = <<>> THEN 20
           ELSE Mean(pp.samples.punchElbowAngles))
    /\ pp.profile.walkingCadence =
          (IF pp.samples.walkingCadences = <<>> THEN 50
           ELSE Mean(pp.samples.walkingCadences))

ProfilePersisted(pp, ls) ==
    /\ ls.playerProfile # None
    /\ JSONparse(Get(ls.playerProfile)) = pp.profile

\* C10: with no tutorial active, a recordSample call of a recognized kind
\* (a step that changes a sample window) ends with every threshold equal to
\* the mean of its window, or to its default 0.2, 0.5, 20, 0.5 when the
\* window is empty, and with the profile stored.
C10_RecomputeOnEveryCall ==
    [][ (profile.tutorialState = Null /\ profile'.samples # profile.samples) =>
          /\ ThresholdsAreMeans(profile')
          /\ ProfilePersisted(profile', localStorage')
      ]_vars

\* C10 witness: two different cadences have been averaged while two windows
\* are still empty and on their defaults.
C10_Witness ==
    /\ profile.tutorialState = Null
    /\ profile.samples.walkingCadences = <<40, 70>>
    /\ profile.profile.walkingCadence = 55
    /\ profile.samples.punchVelocities = <<>>
    /\ profile.profile.punchVelocityThreshold = DefaultPunchVelocityThreshold
    /\ profile.samples.shoulderDistances # <<>>
    /\ ProfilePersisted(profile, localStorage)

(***************************************************************************)
(* Claims about the walk detector                                          *)
(***************************************************************************)
\* this step is a run of combineResults that got past its first line
HandlerRan == clock' # clock /\ frame'.ran /\ frame'.now = clock'

\* the knee-based detector ran in this step (line 375, on the smoothed
\* landmarks of this frame)
KneeDetectorRan == HandlerRan /\ kneesUsable(motion'.smoothedLandmarks)

\* a leg that is Idle before the frame has its knee height below the
\* threshold in the frame
LeftDrop == ~motion.leftKneeUp /\ leftKneeHeight(motion'.smoothedLandmarks) < kneeThreshold
RightDrop == ~motion.rightKneeUp /\ rightKneeHeight(motion'.smoothedLandmarks) < kneeThreshold

SinceLastStep == clock' - motion.lastStepTime

WalkSamplesOf(f) == {i \in 1..Len(f.samples) : f.samples[i][1] = "walk"}

\* C1 as stated: a drop at least 300 ms after the last accepted Step emits
\* exactly one Step; a drop sooner than that, or no drop, emits none.
\* (Before the first accepted Step lastStepTime is 0, the time the page was
\* loaded; the first conjunct is about the drops that follow a Step of the
\* knee detector.)
C1_StepPerDropAtLeast300 ==
    [][ KneeDetectorRan =>
          /\ ((LeftDrop \/ RightDrop) /\ motion.lastStep # None
                /\ motion.hipOscillationCount = 0
                /\ SinceLastStep >= stepCooldown)
                => (frame'.step # "none" /\ Cardinality(WalkSamplesOf(frame')) = 1)
          /\ (~(LeftDrop \/ RightDrop) \/ SinceLastStep < stepCooldown)
                => (frame'.step = "none" /\ WalkSamplesOf(frame') = {})
      ]_vars

\* C1 amended: a drop more than 300 ms after the last accepted Step emits
\* exactly one Step, for a leg that dropped; a drop 300 ms or less after it,
\* or a frame without a drop, emits none.
C1_StepPerDropAfter300 ==
    [][ KneeDetectorRan =>
          /\ ((LeftDrop \/ RightDrop) /\ SinceLastStep > stepCooldown)
                => /\ frame'.step # "none"
                   /\ Cardinality(WalkSamplesOf(frame')) = 1
                   /\ frame'.step = "left" => LeftDrop
                   /\ frame'.step = "right" => RightDrop
          /\ (~(LeftDrop \/ RightDrop) \/ SinceLastStep <= stepCooldown)
                => (frame'.step = "none" /\ WalkSamplesOf(frame') = {})
      ]_vars

\* C1 witness: the knee detector has accepted a right step after an earlier
\* accepted step, and this frame's right knee is below the threshold.
C1_Witness ==
    /\ frame.step = "right"
    /\ frame.via = "knee"
    /\ frame.now = motion.lastStepTime
    /\ rightKneeHeight(motion.smoothedLandmarks) < kneeThreshold
    /\ Len(profile.samples.walkingCadences) >= 2
    /\ motion.hipOscillationCount = 0

\* C2: a Step is accepted, by the knee detector or by the hip fallback,
\* only more than 300 ms after the previous accepted Step: the one timer
\* lastStepTime is set by every accepted Step and by nothing else.
C2_StepsApartByCooldown ==
    [][ /\ (HandlerRan /\ frame'.step # "none")
            => (SinceLastStep > stepCooldown /\ motion'.lastStepTime = clock')
        /\ (motion'.lastStepTime # motion.lastStepTime)
            => (HandlerRan /\ frame'.step # "none")
      ]_vars

\* C2 witness: a Step of the knee detector accepted after a Step of the hip
\* fallback.
C2_Witness ==
    /\ frame.step # "none"
    /\ frame.via = "knee"
    /\ motion.hipOscillationCount >= 1
    /\ motion.lastStepTime = frame.now

(***************************************************************************)
(* Claims about the turn detector                                          *)
(***************************************************************************)
\* this step is a frame in which the turn detector ran: the shoulders are
\* visible and the baseline D had been established before the frame
TurnDetectorRan ==
    /\ HandlerRan
    /\ shouldersUsable(motion'.smoothedLandmarks)
    /\ Len(motion.distanceSamples) = sampleCount

FrameDistance == shoulderDistance(motion'.smoothedLandmarks)
BaselineD == motion.baselineShoulderDistance
YawAdjustment == player'.targetYaw - player.targetYaw
YawInRange(yaw) == Pi - HalfPi <= yaw /\ yaw <= Pi + HalfPi

\* how far each shoulder moved sideways since the previous frame
LeftShoulderMoved == motion'.smoothedLandmarks[11].x - motion.smoothedLandmarks[11].x
RightShoulderMoved == motion'.smoothedLandmarks[12].x - motion.smoothedLandmarks[12].x
TurnsRight == LeftShoulderMoved > 0 /\ Abs(LeftShoulderMoved) > Abs(RightShoulderMoved)
TurnsLeft == RightShoulderMoved < 0 /\ Abs(RightShoulderMoved) > Abs(LeftShoulderMoved)

\* C4 as stated: with the baseline D established, a frame at 0.85 D adjusts
\* the target yaw and a frame at 0.95 D does not.
C4_TurnAt85NotAt95 ==
    [][ TurnDetectorRan =>
          /\ (100 * FrameDistance = 85 * BaselineD) => YawAdjustment # 0
          /\ (100 * FrameDistance = 95 * BaselineD) => YawAdjustment = 0
      ]_vars

\* C4 amended: with the baseline D established and shoulder turning on, a
\* frame at 0.85 D turns right (yaw decreases) when the left shoulder moved
\* right by more than the right shoulder moved, turns left (yaw increases)
\* when the right shoulder moved left by more than the left one moved, each
\* as far as the clamp to [pi/2, 3 pi/2] leaves room, and otherwise leaves a
\* yaw inside that range as it is; a frame at 0.95 D never adjusts the yaw.
C4_TurnAt85WhenShoulderLeads ==
    [][ TurnDetectorRan =>
          /\ (100 * FrameDistance = 85 * BaselineD /\ motion.useShoulders) =>
                /\ (TurnsRight /\ player.targetYaw > Pi - HalfPi)
                      => YawAdjustment < 0
                /\ (~TurnsRight /\ TurnsLeft /\ player.targetYaw < Pi + HalfPi)
                      => YawAdjustment > 0
                /\ (~TurnsRight /\ ~TurnsLeft /\ YawInRange(player.targetYaw))
                      => YawAdjustment = 0
          /\ (100 * FrameDistance = 95 * BaselineD) => YawAdjustment = 0
      ]_vars

\* C4 witness: a frame at 0.85 D, D = 0.20 from ten samples, has turned the
\* player from the facing-away yaw.
C4_Witness ==
    /\ frame.ran /\ frame.turned
    /\ Len(motion.distanceSamples) = sampleCount
    /\ frame.ratioBase = motion.baselineShoulderDistance
    /\ 100 * frame.distance = 85 * frame.ratioBase
    /\ frame.rotationSpeed # 0
    /\ player.targetYaw = Pi + frame.rotationSpeed

\* C5 as stated: after a turn-detector frame with ratio at least 0.5 the
\* target yaw is in [pi/2, 3 pi/2], and the detector moves the yaw out of
\* that range only on a frame with ratio below 0.5.
C5_YawClampedUnlessProfile ==
    [][ TurnDetectorRan =>
          /\ ~ratioBelow(FrameDistance, BaselineD, profileThreshold)
                => YawInRange(player'.targetYaw)
          /\ (YawInRange(player.targetYaw) /\ ~YawInRange(player'.targetYaw))
                => ratioBelow(FrameDistance, BaselineD, profileThreshold)
      ]_vars

\* C5 amended: after a turn-detector frame with ratio at least 0.5 and
\* below 0.9 (shoulder turning on) the target yaw is in [pi/2, 3 pi/2]; a
\* frame with ratio at least 0.9 leaves the target yaw as it was, in the
\* range or not; the detector moves the yaw out of the range only on a
\* frame with ratio below 0.5.
C5_YawClampedOnTurnFrames ==
    [][ TurnDetectorRan =>
          /\ ( /\ motion.useShoulders
               /\ ratioBelow(FrameDistance, BaselineD, distanceThreshold)
               /\ ~ratioBelow(FrameDistance, BaselineD, profileThreshold) )
                => YawInRange(player'.targetYaw)
          /\ ~ratioBelow(FrameDistance, BaselineD, distanceThreshold)
                => YawAdjustment = 0
          /\ (YawInRange(player.targetYaw) /\ ~YawInRange(player'.targetYaw))
                => ratioBelow(FrameDistance, BaselineD, profileThreshold)
      ]_vars

\* C5 witness: a frame with ratio between 0.5 and 0.9 asked for a turn to
\* the left and the clamp has stopped the yaw at 3 pi / 2.
C5_Witness ==
    /\ frame.ran /\ frame.turned
    /\ ratioBelow(frame.distance, frame.ratioBase, distanceThreshold)
    /\ ~ratioBelow(frame.distance, frame.ratioBase, profileThreshold)
    /\ frame.rotationSpeed > 0
    /\ player.targetYaw = Pi + HalfPi

(***************************************************************************)
(* Claims about the thresholds during a tutorial                           *)
(***************************************************************************)
Thresholds(pp) ==
    << pp.profile.baselineShoulderDistance, pp.profile.punchVelocityThreshold,
       pp.profile.punchElbowAngleThreshold, pp.profile.walkingCadence >>

\* C9: a step that begins and ends with the tutorial active changes none of
\* the four calibration thresholds of the profile.
C9_ThresholdsFrozenInTutorial ==
    [][ (profile.tutorialState = "active" /\ profile'.tutorialState = "active")
            => Thresholds(profile') = Thresholds(profile)
      ]_vars

(***************************************************************************)
(* Claims about the punch check                                            *)
(***************************************************************************)
\* the punch samples a frame recorded
PunchVelocitySamples(f) ==
    {i \in 1..Len(f.samples) : f.samples[i][1] = "punchVelocity"}

\* the shoulder distance ratio of the frame is below 0.9
StanceTurned ==
    ratioBelow(shoulderDistance(motion'.smoothedLandmarks),
               motion'.baselineShoulderDistance, distanceThreshold)

\* a hand is above both thresholds of the profile as the frame finds it
LeftHandPunches ==
    /\ frame'.leftPunchVelocity > profile.profile.punchVelocityThreshold
    /\ frame'.leftElbowAngle > profile.profile.punchElbowAngleThreshold
RightHandPunches ==
    /\ frame'.rightPunchVelocity > profile.profile.punchVelocityThreshold
    /\ frame'.rightElbowAngle > profile.profile.punchElbowAngleThreshold

\* C6: a frame resolves a punch for at most one hand; the hand resolved is
\* above the velocity and the elbow angle threshold of the profile and the
\* shoulder distance ratio is below 0.9; when both hands qualify the left
\* hand is the one resolved.
C6_OnePunchLeftFirst ==
    [][ HandlerRan =>
          /\ Cardinality(PunchVelocitySamples(frame')) <= 1
          /\ (frame'.punch = "none") <=> (PunchVelocitySamples(frame') = {})
          /\ frame'.punch = "left" =>
                /\ LeftHandPunches /\ StanceTurned
                /\ \E i \in PunchVelocitySamples(frame') :
                      frame'.samples[i][2] = frame'.leftPunchVelocity
          /\ frame'.punch = "right" =>
                /\ RightHandPunches /\ StanceTurned
                /\ \E i \in PunchVelocitySamples(frame') :
                      frame'.samples[i][2] = frame'.rightPunchVelocity
          /\ (LeftHandPunches /\ RightHandPunches /\ StanceTurned)
                => frame'.punch = "left"
      ]_vars

\* C6 witness: the first punch of the session was resolved for the left
\* hand in a frame in which the right hand was above both thresholds too.
C6_Witness ==
    /\ frame.ran
    /\ frame.punch = "left"
    /\ Len(profile.samples.punchVelocities) = 1
    /\ frame.rightPunchVelocity > DefaultPunchVelocityThreshold
    /\ frame.rightElbowAngle > DefaultPunchElbowAngleThreshold
    /\ frame.leftPunchVelocity > DefaultPunchVelocityThreshold
    /\ frame.leftElbowAngle > DefaultPunchElbowAngleThreshold

(***************************************************************************)
(* Claims about the experience ledger                                      *)
(***************************************************************************)
\* the ledger of the claim: while xp >= 100 * level, 100 * level is taken
\* from xp and the level goes up by one
RECURSIVE ConsumeLevels(_)
ConsumeLevels(e) ==
    IF e.xp >= 100 * e.level
    THEN ConsumeLevels([xp |-> e.xp - 100 * e.level, level |-> e.level + 1])
    ELSE e

\* C11: an award of amount to a skill of the ledger leaves the skill at what
\* consuming 100 * level per level makes of xp + amount, so that
\* xp < 100 * level afterwards; 250 XP from {xp: 0, level: 1} gives level 3
\* with 50 XP.
C11_AwardConsumesLevels ==
    [][ \A skill \in DOMAIN profile.experience :
          profile'.experience[skill] # profile.experience[skill] =>
              /\ \E amount \in AwardAmounts :
                    profile'.experience[skill] =
                        ConsumeLevels([profile.experience[skill]
                                          EXCEPT !.xp = @ + amount])
              /\ profile'.experience[skill].xp < 100 * profile'.experience[skill].level
      ]_vars

(***************************************************************************)
(* Claims about classifier training                                        *)
(***************************************************************************)
PassRunning == profile.training # None

PassStarts(action) == profile'.fits[action] = profile.fits[action] + 1

PassEnds == profile.training # None /\ profile'.training = None

\* C12: a retrain request that arrives while a pass is running is kept as
\* the one pending rerun: when a pass ends during which requests arrived,
\* the rerun follows, so that no request is lost.
C12_BusyRequestsRerun ==
    [][ PassEnds /\ Get(profile.training).rejected > 0 => profile'.training # None ]_vars

\* C13: any two consecutive starts of a training pass are at least 5000 ms
\* apart.
C13_StartsApartByInterval ==
    [][ \A action \in DOMAIN profile.fits :
          PassStarts(action) /\ profile.lastFitStart # None =>
              Get(profile'.lastFitStart) - Get(profile.lastFitStart) >= 5000 ]_vars

\* C14: a training pass never starts on fewer than 10 queued examples.
C14_PassNeedsTenExamples ==
    PassRunning => Get(profile.training).examples >= 10

\* C15: the queue of training examples never holds more than 1000 entries.
C15_QueueWithinCapacity ==
    \A action \in DOMAIN profile.modelTrainingData :
        Len(profile.modelTrainingData[action]) <= 1000

(***************************************************************************)
(* Claims about fusion and smoothing                                       *)
(***************************************************************************)
\* the confidence MediaPipe gives landmark i in the stored result m.mpResults
MediaPipeConfidence(m, i) ==
    IF m.mpResults # None /\ Get(m.mpResults).poseLandmarks # None
    THEN Get(Get(m.mpResults).poseLandmarks)[i].visibility
    ELSE 0

\* MoveNet has a keypoint for landmark i with a score above 0.5
MoveNetConfident(m, i) ==
    /\ i # 0                   \* no MoveNet keypoint maps to the nose
    /\ m.tfResults # None
    /\ \E k \in 1..Len(Get(m.tfResults).keypoints) :
          /\ keypointMap(Get(m.tfResults).keypoints[k].id) = i
          /\ Get(m.tfResults).keypoints[k].score > 50

NoSourceConfident(m, i) ==
    MediaPipeConfidence(m, i) <= 50 /\ ~MoveNetConfident(m, i)

\* C16: after every frame the smoothed skeleton has the same landmarks, and
\* a landmark that neither source reports with a confidence above 0.5
\* (exactly 0.5 does not count) keeps the value it had before the frame.
C16_UnconfidentLandmarksKept ==
    [][ HandlerRan =>
          /\ DOMAIN motion'.smoothedLandmarks = DOMAIN motion.smoothedLandmarks
          /\ \A i \in Landmarks :
                NoSourceConfident(motion', i) =>
                    motion'.smoothedLandmarks[i] = motion.smoothedLandmarks[i]
      ]_vars

\* a frame in which MediaPipe reports the left shoulder at exactly 0.5 and
\* MoveNet reports nothing confident, after the shoulder was seen before
C16_Witness ==
    /\ frame.ran
    /\ MediaPipeConfidence(motion, 11) = 50
    /\ ~MoveNetConfident(motion, 11)
    /\ ~IsZero(motion.smoothedLandmarks[11])

(***************************************************************************)
(* Claims about starting and stopping motion tracking                      *)
(***************************************************************************)
\* the step cooldown timers and the per-leg raised flags
CooldownState(m) ==
    <<m.lastStepTime, m.lastHipStepTime, m.leftKneeUp, m.rightKneeUp>>

\* the bootstrap samples and the hip oscillation counter
BootstrapState(m) == <<m.distanceSamples, m.hipOscillationCount>>

\* the hip and shoulder values of the previous frame
PreviousFrameState(m) ==
    <<m.lastLeftHipY, m.lastRightHipY, m.lastLeftShoulderX, m.lastRightShoulderX>>

StopCompletes == motion.motionInitialized /\ ~motion'.motionInitialized

\* C17: when stop-tracking completes, the step cooldown timer, the per-leg
\* raised flags, the bootstrap distance samples, the hip oscillation counter
\* and the previous-frame hip and shoulder values are back at their initial
\* values.
C17_StopResetsDetectorState ==
    [][ StopCompletes =>
          /\ CooldownState(motion') = CooldownState(MotionCaptureInit)
          /\ BootstrapState(motion') = BootstrapState(MotionCaptureInit)
          /\ PreviousFrameState(motion') = PreviousFrameState(MotionCaptureInit)
      ]_vars

\* C18: stop-tracking called twice in a row: the second call changes
\* nothing, and bootstrap and cooldown state are reset afterwards.
C18_StopTwiceIsNoOp ==
    LET once  == stopMotionTracking(motion, profile)
        twice == stopMotionTracking(once, profile)
    IN  /\ twice = once
        /\ BootstrapState(twice) = BootstrapState(MotionCaptureInit)
        /\ CooldownState(twice) = CooldownState(MotionCaptureInit)

\* what a run of combineResults emitted: a Step, a yaw adjustment, a punch
\* or a recordSample call
DetectorActed(f) ==
    f.step # "none" \/ f.turned \/ f.punch # "none" \/ f.samples # <<>>

MotionDisabled == ~motion.useMotion \/ ~motion.motionInitialized

\* C19: a pose-result callback or frame-loop iteration that arrives or
\* completes while motion is disabled (toggled off, tracking stopped or
\* acquisition failed) emits no Step, yaw adjustment, punch or recordSample
\* call.
C19_NoDetectorWhileDisabled ==
    [][ MotionDisabled /\ HandlerRan => ~DetectorActed(frame') ]_vars

(***************************************************************************)
(* Claims about unrecognized sample kinds                                  *)
(***************************************************************************)
\* recordSample has just warned about the kind it was given
InvalidKindRecorded == profile'.warnings = profile.warnings + 1

\* C20: recordSample with a kind outside the five valid ones changes none of
\* the sample windows, the tutorial state, the profile thresholds, the
\* training queue and the store.
C20_InvalidKindIsNoOp ==
    [][ InvalidKindRecorded =>
          /\ profile'.samples = profile.samples
          /\ profile'.tutorialState = profile.tutorialState
          /\ profile'.tutorialSteps = profile.tutorialSteps
          /\ profile'.tutorialCounts = profile.tutorialCounts
          /\ profile'.profile = profile.profile
          /\ profile'.modelTrainingData = profile.modelTrainingData
          /\ profile'.training = profile.training
          /\ localStorage' = localStorage
      ]_vars

\* an invalid kind was recorded during a tutorial that has samples already
C20_Witness ==
    /\ profile.warnings > 0
    /\ profile.tutorialState = "active"
    /\ profile.samples.walkingCadences # <<>>

(***************************************************************************)
(* Claims about walking XP                                                 *)
(***************************************************************************)
\* update() has counted a step and made its call awardXP('walking', 1)
StepCounted == player'.stepCount = player.stepCount + 1

\* C21: awardXP('walking', n), as the player update calls it, is accepted as
\* a recognized skill and no fault reaches the caller: the update that
\* counts a step ends normally and a skill of the ledger has gained the XP.
C21_WalkingAwardAccepted ==
    [][ StepCounted =>
          /\ ~player'.threw
          /\ \E skill \in DOMAIN profile.experience :
                profile'.experience[skill].xp = profile.experience[skill].xp + 1
      ]_vars

\* C22: the xp of every skill of the experience ledger is never negative.
C22_XPNeverNegative ==
    \A skill \in DOMAIN profile.experience : profile.experience[skill].xp >= 0

\* both writers have added to the walk skill: an award and a training epoch
C22_Witness ==
    /\ profile.training # None
    /\ Get(profile.training).action = "walk"
    /\ Get(profile.training).epoch > 0
    /\ profile.totalSteps > 0
    /\ profile.experience.walk.xp > 5 * Get(profile.training).epoch

\* the Steps accepted so far: each accepted Step records one walk sample
AcceptedSteps(pp) == Len(pp.modelTrainingData.walk)

\* C23: walking XP grows by exactly 1 with each accepted Step (the lump of
\* every 2112th step is beyond the steps taken here) and does not grow on a
\* frame in which no Step is accepted.
C23_WalkingXPPerStep ==
    [][ profile'.experience.walk.xp - profile.experience.walk.xp =
            AcceptedSteps(profile') - AcceptedSteps(profile) ]_vars

(***************************************************************************)
(* Claims about persistence                                                *)
(***************************************************************************)
Unreadable(stored) == stored = None \/ ~parses(Get(stored))

\* C24: loading the store at startup never faults, and a stored profile or
\* experience ledger that is absent or corrupted, or an absent step count,
\* leaves the field at its built-in default.
C24_LoadNeverFaults ==
    LET pp == constructor(localStorage)
    IN  /\ ~pp.faulted
        /\ Unreadable(localStorage.playerProfile) =>
              pp.profile = PlayerProfileInit.profile
        /\ Unreadable(localStorage.playerExperience) =>
              pp.experience = PlayerProfileInit.experience
        /\ localStorage.totalSteps = None => pp.totalSteps = 0


(***************************************************************************)
(* SpecQuota: motion control is switched on and the camera delivers frames *)
(* of the shoulders while the store may reach its quota at any moment.     *)
(***************************************************************************)
MaxQuotaTicks == 11

QuotaFrame ==
    \E results \in CalibratePoses : \E now \in NextTimes(MaxQuotaTicks) :
        onMediaPipeResults(results, now)

NextQuota ==
    \/ ToggleMotionOn
    \/ TrackingStarted
    \/ StorageFills
    \/ QuotaFrame

SpecQuota == Init /\ [][NextQuota]_vars

\* C25: a failing persistence write does not abort the operation in
\* progress: a frame handled while the store refuses writes still runs to
\* its end (no exception leaves combineResults), whatever it had to save.
C25_WriteFailureKeepsFrame == localStorage.full => ~frame.threw


\* the stored copy equals the in-memory profile and experience ledger
StoredCopyCurrent(pp, ls) ==
    /\ ls.playerProfile = Some(JSONstringify(pp.profile))
    /\ ls.playerExperience = Some(JSONstringify(pp.experience))

\* C26: after every step that changes the profile or the experience ledger
\* in memory, the stored copy equals the in-memory profile and ledger,
\* provided the store accepts writes.
C26_StoredAfterEveryMutation ==
    [][ (\/ profile'.experience # profile.experience
         \/ profile'.profile # profile.profile)
        /\ ~localStorage'.full
        => StoredCopyCurrent(profile', localStorage') ]_vars


(***************************************************************************)
(* SpecFault: walk and punch samples arrive one frame period apart while   *)
(* the classifier trains in the background, and a pass may fail.           *)
(***************************************************************************)
MaxFaultTicks == 3

FaultSample ==
    \E type \in {"walk", "punchVelocity"} : \E value \in SampleValues(type) :
        \E now \in NextTimes(MaxFaultTicks) :
            RecordSampleAt(type, value, now)

NextFault ==
    \/ FaultSample
    \/ OnEpochEnd
    \/ TrainModelResumes
    \/ TrainModelFails

SpecFault == Init /\ [][NextFault]_vars

\* a retrain request made now would start a pass
RequestStartsPass(action) ==
    trainModel(profile, action, clock).fits[action] = profile.fits[action] + 1

FilterState(m) == m.smoothedLandmarks

\* C28: when stop-tracking completes, the smoothing filter's per-keypoint
\* state is back at its zero state, so the next session's first frame is
\* not blended with keypoints of the session that ended.
C28_StopResetsFilter ==
    [][ StopCompletes => FilterState(motion') = FilterState(MotionCaptureInit) ]_vars


(***************************************************************************)
(* SpecStale: the player turns with the left arrow key, then switches to   *)
(* motion control; the shoulders are square, then may draw in, while the   *)
(* baseline is taken; afterwards frames arrive with only the hips seen.    *)
(***************************************************************************)
MaxStaleFrames == 1

Narrow == MediaPipePose(Shoulders(39, 47))

HipsOnly == MediaPipePose(Hips(50, 50))

\* the stance is square at first and may draw in over the last two frames
StaleBaselineFrame ==
    /\ Len(motion.distanceSamples) < sampleCount
    /\ \E results \in {Square, Narrow} : \E now \in {clock + g : g \in FramePeriod} :
          /\ Len(motion.distanceSamples) < sampleCount - 2 => results = Square
          /\ onMediaPipeResults(results, now)

StaleFrame ==
    /\ Len(motion.distanceSamples) = sampleCount
    /\ frame.count < sampleCount + MaxStaleFrames
    /\ \E results \in {Square, HipsOnly} : \E now \in {clock + g : g \in FramePeriod} :
          onMediaPipeResults(results, now)

NextStale ==
    \/ GenerateEnvironment
    \/ KeyboardFrame
    \/ ToggleMotionOn
    \/ TrackingStarted
    \/ StaleBaselineFrame
    \/ StaleFrame

SpecStale == Init /\ [][NextStale]_vars

\* neither source gave the shoulders of this frame: the fused landmarks 11
\* and 12 are left at zero
ShouldersUnusable(m) ==
    LET landmarks == fuse(m.mpResults, m.tfResults)
    IN  IsZero(landmarks[11]) /\ IsZero(landmarks[12])

\* C29: a frame in which the shoulder keypoints are unusable leaves the
\* target yaw unchanged, whatever the yaw and the last usable shoulder
\* values were.
C29_UnusableShouldersKeepYaw ==
    [][ HandlerRan /\ ShouldersUnusable(motion')
        => player'.targetYaw = player.targetYaw ]_vars


\* the recordSample calls of a frame for a sample type, in order
SamplesOfType(f, type) ==
    SelectSeq(f.samples, LAMBDA sample : sample[1] = type)

\* the punch samples a frame hands to the profile, and the ones the profile
\* holds
PunchSamplesRecorded(f) ==
    <<SamplesOfType(f, "punchVelocity"), SamplesOfType(f, "punchElbowAngle")>>
PunchSamplesHeld(pp) ==
    <<Len(pp.samples.punchVelocities), Len(pp.samples.punchElbowAngles)>>

\* C30: a frame records punchVelocity and punchElbowAngle samples only when
\* a punch fires in it, and then exactly one of each, with the values of the
\* hand that fired; a frame without a punch records neither, and the
\* profile's punch samples stay as they were.
C30_PunchSamplesOnlyOnFire ==
    [][ HandlerRan =>
          /\ frame'.punch = "none" =>
                /\ PunchSamplesRecorded(frame') = <<(<<>>), (<<>>)>>
                /\ PunchSamplesHeld(profile') = PunchSamplesHeld(profile)
          /\ frame'.punch = "left" =>
                PunchSamplesRecorded(frame') =
                    << <<(<<"punchVelocity", frame'.leftPunchVelocity>>)>>,
                       <<(<<"punchElbowAngle", frame'.leftElbowAngle>>)>> >>
          /\ frame'.punch = "right" =>
                PunchSamplesRecorded(frame') =
                    << <<(<<"punchVelocity", frame'.rightPunchVelocity>>)>>,
                       <<(<<"punchElbowAngle", frame'.rightElbowAngle>>)>> >>
          /\ frame'.punch # "none" =>
                PunchSamplesHeld(profile') =
                    <<PunchSamplesHeld(profile)[1] + 1, PunchSamplesHeld(profile)[2] + 1>>
      ]_vars

\* C30 witness: a frame fired a punch for the right hand and the profile
\* holds its velocity and elbow angle as the latest samples
C30_Witness ==
    /\ frame.ran
    /\ frame.punch = "right"
    /\ profile.samples.punchVelocities # <<>>
    /\ profile.samples.punchElbowAngles # <<>>
    /\ profile.samples.punchVelocities[Len(profile.samples.punchVelocities)]
          = frame.rightPunchVelocity
    /\ profile.samples.punchElbowAngles[Len(profile.samples.punchElbowAngles)]
          = frame.rightElbowAngle


(***************************************************************************)
(* Claims about the legs of the walk detector                              *)
(***************************************************************************)
\* a leg is Raised when its flag is set, Idle otherwise
Raised(m, leg) == IF leg = "left" THEN m.leftKneeUp ELSE m.rightKneeUp

kneeHeight(sm, leg) ==
    IF leg = "left" THEN leftKneeHeight(sm) ELSE rightKneeHeight(sm)

\* C31: each leg is a two-state machine.  A Raised leg emits no Step; in a
\* frame of the knee detector it returns to Idle exactly when its knee
\* height is at least -0.05; a leg becomes Raised only in a frame in which
\* it emits a Step, and emitting a Step leaves it Raised; nothing but a
\* handled frame changes the state of a leg.
C31_LegIsTwoStateMachine ==
    [][ \A leg \in {"left", "right"} :
          /\ (HandlerRan /\ Raised(motion, leg)) => frame'.step # leg
          /\ (KneeDetectorRan /\ Raised(motion, leg)) =>
                (~Raised(motion', leg)
                    <=> kneeHeight(motion'.smoothedLandmarks, leg) >= kneeThreshold)
          /\ (~Raised(motion, leg) /\ Raised(motion', leg)) =>
                (HandlerRan /\ frame'.step = leg)
          /\ (HandlerRan /\ frame'.step = leg) => Raised(motion', leg)
          /\ (Raised(motion', leg) # Raised(motion, leg)) => HandlerRan
      ]_vars

\* C31 witness: the left leg stepped in an earlier frame and is still
\* Raised after a frame of the knee detector that came after the cooldown
\* with the knee still up, and emitted nothing
C31_Witness ==
    /\ frame.ran
    /\ frame.step = "none"
    /\ kneesUsable(motion.smoothedLandmarks)
    /\ motion.leftKneeUp
    /\ leftKneeHeight(motion.smoothedLandmarks) < kneeThreshold
    /\ rightKneeHeight(motion.smoothedLandmarks) >= kneeThreshold
    /\ frame.now - motion.lastStepTime > stepCooldown


(***************************************************************************)
(* SpecBoot: motion control is switched on; the camera sees the shoulders  *)
(* in some frames and only the hips in others.                             *)
(***************************************************************************)
MaxBootTicks == 11

Huddled == MediaPipePose(Shoulders(10, 10))

\* the player stands square, in or out of view of the shoulders, while the
\* buffer fills, and may huddle afterwards
BootFrame ==
    \E results \in {Square, Huddled, HipsOnly} : \E now \in NextTimes(MaxBootTicks) :
        /\ results = Huddled => Len(motion.distanceSamples) = sampleCount
        /\ onMediaPipeResults(results, now)

NextBoot ==
    \/ ToggleMotionOn
    \/ TrackingStarted
    \/ BootFrame

SpecBoot == Init /\ [][NextBoot]_vars

\* the mean of the distances of the bootstrap buffer
BootstrapMean(m) == Sum(m.distanceSamples) \div sampleCount

\* this frame is the n-th frame of the session with valid shoulders
ValidShoulderFrame(n) ==
    HandlerRan /\ frame'.shoulders = n /\ frame.shoulders = n - 1

\* C32: the turn detector makes no yaw adjustment during the first 10
\* frames with valid shoulders, and none before; the 10th such frame sets
\* the baseline to the mean of the 10 distances and writes it to the
\* profile and to the store (when the store takes the write).
C32_BaselineFromFirstTenFrames ==
    [][ /\ (HandlerRan /\ frame'.shoulders <= sampleCount)
            => (player'.targetYaw = player.targetYaw /\ ~frame'.turned)
        /\ (HandlerRan /\ frame'.shoulders < sampleCount)
            => motion'.baselineShoulderDistance = motion.baselineShoulderDistance
        /\ ValidShoulderFrame(sampleCount)
            => /\ Len(motion'.distanceSamples) = sampleCount
               /\ motion'.baselineShoulderDistance = BootstrapMean(motion')
      ]_vars


(***************************************************************************)
(* Claims about the order of the tutorial steps                            *)
(***************************************************************************)
\* the action of the pending step: the first incomplete one
PendingAction(pp) == pp.tutorialSteps[currentStep(pp)].action

\* the step counters that grew in this step
CountersGrown ==
    {a \in DOMAIN profile.tutorialCounts :
        profile'.tutorialCounts[a] > profile.tutorialCounts[a]}

\* C33: while a tutorial is active a step counter grows only for the action
\* of the pending step, so a step completes only when the steps before it
\* are complete, and no counter goes down.
C33_OnlyPendingStepCounts ==
    [][ (TutorialActive /\ currentStep(profile) # 0) =>
          /\ CountersGrown \subseteq {PendingAction(profile)}
          /\ \A i \in 1..Len(profile.tutorialSteps) :
                (profile'.tutorialSteps[i].complete /\ ~profile.tutorialSteps[i].complete)
                    => \A j \in 1..(i - 1) : profile.tutorialSteps[j].complete
          /\ \A a \in DOMAIN profile.tutorialCounts :
                profile'.tutorialCounts[a] >= profile.tutorialCounts[a]
      ]_vars


(***************************************************************************)
(* Claims about the sample windows                                         *)
(***************************************************************************)
\* a window after value was appended as its newest entry, the oldest
\* dropped beyond the capacity
Appended(window, value) ==
    LET pushed == Append(window, value)
    IN  IF Len(pushed) > SampleWindowCapacity THEN Tail(pushed) ELSE pushed

\* C34: a recordSample call with a recognized kind, made in any state the
\* program reaches, appends the value as the newest entry of the matching
\* window and drops the oldest beyond 100, with or without a tutorial and
\* whichever step is pending.
C34_EverySampleAppended ==
    \A type \in validTypes :
        LET value == TutorialValue(type)
            key   == sampleKey(type)
            after == recordSample(profile, localStorage, clock, type, value).pp
        IN  after.samples[key] = Appended(profile.samples[key], value)


(***************************************************************************)
(* SpecCorner: both pose sources deliver shoulders; MediaPipe may report   *)
(* the left shoulder in the corner of the frame, at x = 0, y = 0.          *)
(***************************************************************************)
MaxCornerTicks == 3

CornerMediaPipePoses ==
    { MediaPipePoseAt(Shoulders(30, 56), 90),
      MediaPipePoseAt((11 :> Vec3(0, 0, 0)) @@ (12 :> Vec3(56, 30, 0)), 90),
      MediaPipeEmpty }

CornerMoveNetPoses ==
    { Some(MoveNetPose(192, 384, 90)),
      None }

CornerMediaPipeFrame ==
    \E results \in CornerMediaPipePoses : \E now \in NextTimes(MaxCornerTicks) :
        onMediaPipeResults(results, now)

CornerMoveNetFrame ==
    \E pose \in CornerMoveNetPoses : \E now \in NextTimes(MaxCornerTicks) :
        processFramesResumes(pose, now)

NextCorner ==
    \/ ToggleMotionOn
    \/ TrackingStarted
    \/ CornerMediaPipeFrame
    \/ CornerMoveNetFrame
    \/ processFrames

SpecCorner == Init /\ [][NextCorner]_vars

\* the primary value of landmark i: what MediaPipe reports
PrimaryValue(m, i) ==
    LET kp == Get(Get(m.mpResults).poseLandmarks)[i] IN Vec3(kp.x, kp.y, kp.z)

\* the secondary value of landmark i: MoveNet's keypoint for it, in pixels,
\* divided by the width and the height of the frame
SecondaryValue(m, i) ==
    LET keypoints == Get(m.tfResults).keypoints
        kp == keypoints[CHOOSE k \in 1..Len(keypoints) :
                            /\ keypointMap(keypoints[k].id) = i
                            /\ keypoints[k].score > 50]
    IN  Vec3((kp.x * 100) \div videoWidth, (kp.y * 100) \div videoHeight, 0)

Average(a, b) == Vec3((a.x + b.x) \div 2, (a.y + b.y) \div 2, (a.z + b.z) \div 2)

\* the fused input the claim prescribes for a landmark some source is
\* confident of
FusedValue(m, i) ==
    IF MediaPipeConfidence(m, i) > 50 /\ MoveNetConfident(m, i)
    THEN Average(PrimaryValue(m, i), SecondaryValue(m, i))
    ELSE IF MediaPipeConfidence(m, i) > 50 THEN PrimaryValue(m, i)
    ELSE SecondaryValue(m, i)

\* C35: for each landmark the fused input of a handled frame is the primary
\* value when only the primary is confident, the normalized secondary value
\* when only the secondary is, and their per-axis average when both are,
\* for every coordinate value, a primary keypoint at x = 0, y = 0 included.
C35_FusedInput ==
    frame.ran =>
        \A i \in Landmarks :
            (MediaPipeConfidence(motion, i) > 50 \/ MoveNetConfident(motion, i))
                => fuse(motion.mpResults, motion.tfResults)[i] = FusedValue(motion, i)


(***************************************************************************)
(* SpecBlind: a person walks in place in front of the camera; in some      *)
(* frames the legs are out of view and only the shoulders are seen.        *)
(***************************************************************************)
MaxBlindTicks == 5

BlindFrame ==
    \E results \in KneePoses \cup {Square} : \E now \in NextTimes(MaxBlindTicks) :
        onMediaPipeResults(results, now)

NextBlind ==
    \/ ToggleMotionOn
    \/ TrackingStarted
    \/ BlindFrame

SpecBlind == Init /\ [][NextBlind]_vars

\* neither source gave the hips or the knees of this frame
LegsUnusable(m) ==
    LET landmarks == fuse(m.mpResults, m.tfResults)
    IN  \A i \in {23, 24, 25, 26} : IsZero(landmarks[i])

\* C36: a frame without usable knee and hip keypoints emits no Step,
\* records no walk sample and leaves the cooldown timers and the per-leg
\* flags as they were; a frame without usable shoulders leaves the bootstrap
\* sample buffer as it was.
C36_DetectorsSkipBlindFrames ==
    [][ /\ (HandlerRan /\ LegsUnusable(motion'))
            => /\ frame'.step = "none"
               /\ WalkSamplesOf(frame') = {}
               /\ CooldownState(motion') = CooldownState(motion)
        /\ (HandlerRan /\ ShouldersUnusable(motion'))
            => motion'.distanceSamples = motion.distanceSamples
      ]_vars


(***************************************************************************)
(* Claims about the frame loop and the camera                              *)
(***************************************************************************)
\* the processFrames chains alive: at their await or waiting for a frame
FrameLoops(m) == m.loop.estimating + m.loop.scheduled

\* C37: at any time at most one frame-processing loop and at most one
\* capture camera are active, whatever the order of the toggles, the starts
\* and stops with their awaits, and the animation frames.
C37_OneLoopOneCamera ==
    FrameLoops(motion) <= 1 /\ motion.captures <= 1


(***************************************************************************)
(* SpecBaseline: motion control is switched on and off while the camera    *)
(* sees the shoulders, square until the baseline is set and square or      *)
(* drawn in afterwards.                                                    *)
(***************************************************************************)
MaxBaselineTicks == 14
MaxBaselineStarts == 2

BaselineToggleOn ==
    /\ InFlight(motion) < MaxBaselineStarts
    /\ ToggleMotionOn

BaselineSessionFrame ==
    \E results \in {Square, Narrow} : \E now \in NextTimes(MaxBaselineTicks) :
        /\ Len(motion.distanceSamples) < sampleCount => results = Square
        /\ onMediaPipeResults(results, now)

NextBaseline ==
    \/ BaselineToggleOn
    \/ TrackingStarted
    \/ ToggleMotionOff
    \/ BaselineSessionFrame

SpecBaseline == Init /\ [][NextBaseline]_vars

\* the bootstrap of the session is complete
Bootstrapped(m) == Len(m.distanceSamples) = sampleCount

\* C38: from the completion of the bootstrap until tracking stops, the
\* baseline of the detectors is the bootstrap mean, whatever the profile
\* recomputes; the detectors' baseline changes only when a bootstrap
\* completes and when tracking stops, and a stop sets it to the profile's.
C38_DetectorBaselineFixedInSession ==
    [][ /\ Bootstrapped(motion')
            => motion'.baselineShoulderDistance = BootstrapMean(motion')
        /\ (HandlerRan /\ frame'.turned)
            => frame'.ratioBase = BootstrapMean(motion')
        /\ motion'.baselineShoulderDistance # motion.baselineShoulderDistance
            => \/ ~Bootstrapped(motion) /\ Bootstrapped(motion')
               \/ /\ StopCompletes
                  /\ motion'.baselineShoulderDistance
                        = profile.profile.baselineShoulderDistance
      ]_vars

\* C38 witness: the turn detector has just divided by the bootstrap mean in
\* a session whose profile baseline the recomputes have moved away from it
C38_Witness ==
    /\ Bootstrapped(motion)
    /\ frame.ran /\ frame.turned
    /\ frame.ratioBase = BootstrapMean(motion)
    /\ profile.profile.baselineShoulderDistance # motion.baselineShoulderDistance


Skills == DOMAIN PlayerProfileInit.experience

\* C39: the level of every skill is at least 1 and never decreases, over any
\* sequence of XP awards and training epochs.
C39_LevelsNeverDrop ==
    [][\A skill \in Skills :
          /\ profile'.experience[skill].level >= 1
          /\ profile'.experience[skill].level >= profile.experience[skill].level
      ]_vars

\* C39 witness: awards and epochs have taken walking to level 3, and an
\* epoch of the pass in flight has been credited since
C39_Witness ==
    /\ profile.experience.walk.level = 3
    /\ profile.experience.walk.xp > levelThresholds[3]
    /\ profile.training # None
    /\ Get(profile.training).epoch > 0


(***************************************************************************)
(* SpecCamera: the Cycle Camera button is pressed at any time while motion *)
(* control is switched on and off; promises settle and timers fire.        *)
(***************************************************************************)
MaxCameras == 3
MaxCameraTicks == 25
MaxCameraStarts == 2
CameraWaitPeriods == {500}

SetupListsCameras ==
    \E count \in 0..MaxCameras : \E index \in -1..(MaxCameras - 1) :
        /\ index < count
        /\ CamerasListed(count, index)

CycleCameraButton ==
    /\ clock <= MaxCameraTicks * 100
    /\ CycleCamera

CameraToggleOn ==
    /\ InFlight(motion) < MaxCameraStarts
    /\ ToggleMotionOn

CameraWait ==
    /\ \E wait \in CameraWaitPeriods :
          /\ clock + wait <= MaxCameraTicks * 100
          /\ clock' = clock + wait
    /\ UNCHANGED <<profile, motion, player, localStorage, frame>>

NextCamera ==
    \/ SetupListsCameras
    \/ CycleCameraButton
    \/ CycleCameraResumes
    \/ CameraRestarted
    \/ CameraRestartFailed
    \/ CooldownExpires
    \/ CameraWait
    \/ CameraToggleOn
    \/ TrackingStarted
    \/ ToggleMotionOff

\* a continuation whose promise has settled runs, a promise of
\* startMotionTracking settles one way or the other, a timer that is due fires
SpecCamera ==
    /\ Init /\ [][NextCamera]_vars
    /\ WF_vars(CycleCameraResumes)
    /\ WF_vars(CameraRestarted \/ CameraRestartFailed)
    /\ WF_vars(CooldownExpires)

====
